---- MODULE Spec2Model ----
(***************************************************************************)
(* A model of the audio-engine Mixer (src/src/mixer.rs) and of the sound   *)
(* sources it pulls from (src/src/converter.rs, src/src/lib.rs).           *)
(*                                                                         *)
(* Indices: the code indexes `sounds` from 0, sequences here start at 1.   *)
(* Code index i is position i + 1; `playing` is kept as the code keeps it  *)
(* (a count), so "code index i < playing" reads "position p <= playing".   *)
(***************************************************************************)
EXTENDS Integers, Sequences, FiniteSets, TLC

\* ------------------------------------------------------------------ bounds
MaxSounds == 2
MaxSrcLen == 1
MaxBuf == 2
MaxTune == 1

\* ------------------------------------------------------- program constants
I16Max == 32767
I16Min == -32768
\* Volumes are f32 in the code; here a volume is an integer count of
\* 1/VolUnit, so 1.0 is VolUnit and 0.5 is 1 (all exactly representable).
VolUnit == 2

\* The channel counts of sources, converters and devices.
ChannelCounts == {1, 2, 3}

Groups == {"A", "B"}
\* The groups sounds are added to.
AddGroups == {"A"}
Volumes == {1, VolUnit}
GroupVolumes == {2 * VolUnit}

\* sounds, playing, channels, sample_rate, group_volumes: the fields of Mixer.
\* next_id  : the counter behind next_id().
\* status   : "ok", "panicked" (a call panicked) or "hung" (a call never
\*            returns); no call is made once the status is not "ok".
\* build    : "debug" or "release", which decides what a usize overflow does.
\* tunes    : the calls of set_volume, set_group_volume and set_config made.
\* logical  : the ids on which play was called and that were not paused,
\*            stopped or ended since (history, the code keeps no such set).
\* last     : the call last made and what it returned (history).
\* handles  : the ids of the Sound handles that were created and not dropped.
\* alloc    : a second Mixer and the threads calling add_sound, for the ids.
\* conv     : a SampleRateConverter driven on its own, with what it returned.
\* lock     : the Mutex around the Mixer and the threads that lock it.
\* backend  : the backend thread, its event channel and the AudioEngine.
VARIABLES sounds, playing, channels, sample_rate, group_volumes, next_id,
          status, build, tunes, logical, last, handles, alloc, conv,
          lock, backend

\* What a call on the Mixer leaves alone.
outside == <<handles, alloc, conv, lock, backend>>

vars == <<sounds, playing, channels, sample_rate, group_volumes, next_id,
          status, build, tunes, logical, last, handles, alloc, conv,
          lock, backend>>

\* ----------------------------------------------------------- arithmetic
Min(a, b) == IF a < b THEN a ELSE b

Clamp(x) == IF x > I16Max THEN I16Max ELSE IF x < I16Min THEN I16Min ELSE x

\* i16::saturating_add
SatAdd(a, b) == Clamp(a + b)

\* A division that rounds toward minus infinity.
FloorDiv(a, b) == a \div b

\* Division truncating toward zero (Rust's integer `/` and float `as i16`).
TruncDiv(a, b) == IF a >= 0 THEN a \div b ELSE -((-a) \div b)

RECURSIVE Gcd(_, _)
Gcd(a, b) == IF b = 0 THEN a ELSE Gcd(b, a % b)

Zeros(n) == [k \in 1..n |-> 0]

\* slice::swap
Swap(s, i, j) == [s EXCEPT ![i] = s[j], ![j] = s[i]]

\* Vec::swap_remove: the last element takes the place of the removed one.
SwapRemove(s, i) ==
  IF i = Len(s) THEN SubSeq(s, 1, Len(s) - 1)
  ELSE [SubSeq(s, 1, Len(s) - 1) EXCEPT ![i] = s[Len(s)]]

Range(s) == {s[k] : k \in 1..Len(s)}

\* ---------------------------------------------------------------- sources
\* A sound source is a record tagged by `kind`:
\*   "buffer"  : a finite in-memory source (its samples, its read position)
\*   "channel" : ChannelConverter over `inner`
\*   "rate"    : SampleRateConverter over `inner`
\* reset returns [d, fault]; write_samples takes the contents of the slice
\* it is handed and returns [d, b, n, fault]: the source afterwards, the
\* slice afterwards, the count returned, and whether the call panicked.

\* Overflow checks are on in a debug build and off (wrapping) in release.
OverflowChecks == build = "debug"

BufferSource(rate, ch, samples) ==
  [kind |-> "buffer", sample_rate |-> rate, channels |-> ch,
   buffer |-> samples, i |-> 0]

RECURSIVE SrcChannels(_)
SrcChannels(d) ==
  IF d.kind = "rate" THEN SrcChannels(d.inner) ELSE d.channels

RECURSIVE SrcRate(_)
SrcRate(d) ==
  IF d.kind = "rate" THEN d.output_sample_rate
  ELSE IF d.kind = "channel" THEN SrcRate(d.inner)
  ELSE d.sample_rate

BufferWrite(d, b) ==
  LET len == Min(Len(d.buffer) - d.i, Len(b))
  IN [d |-> [d EXCEPT !.i = d.i + len],
      b |-> [k \in 1..Len(b) |-> IF k <= len THEN d.buffer[d.i + k] ELSE b[k]],
      n |-> len,
      fault |-> FALSE]

\* An in-place loop that runs upward: i runs from 0 to inLen - 1 over the
\* samples in the output slice, each read after the writes of the frames
\* before it.
RECURSIVE UpwardLoop(_, _, _, _, _, _)
UpwardLoop(b, i, inLen, sum, inCh, outCh) ==
  IF i >= inLen THEN b
  ELSE LET sum1 == sum + b[i + 1]
       IN IF (i + 1) % inCh = 0
          THEN LET frame == (i \div inCh) * outCh
                   mean == TruncDiv(sum1, inCh)
               IN UpwardLoop([k \in 1..Len(b) |->
                                IF k > frame /\ k <= frame + outCh THEN mean ELSE b[k]],
                             i + 1, inLen, 0, inCh, outCh)
          ELSE UpwardLoop(b, i + 1, inLen, sum1, inCh, outCh)

\* The Ordering::Less arm's loop turned round.
LessUpward(b, i, sum, inCh, outCh) == UpwardLoop(b, 0, i + 1, 0, inCh, outCh)

\* The in-place loop of the Ordering::Less arm: i runs from in_len - 1 down
\* to 0 over the samples the inner source left in the output slice.
RECURSIVE LessLoop(_, _, _, _, _)
LessLoop(b, i, sum, inCh, outCh) ==
  IF i < 0 THEN b
  ELSE LET sum1 == sum + b[i + 1]
       IN IF i % inCh = 0
          THEN LET frame == (i \div inCh) * outCh
                   mean == TruncDiv(sum1, inCh)
               IN LessLoop([k \in 1..Len(b) |->
                              IF k > frame /\ k <= frame + outCh THEN mean ELSE b[k]],
                           i - 1, 0, inCh, outCh)
          ELSE LessLoop(b, i - 1, sum1, inCh, outCh)

\* The loop of the Ordering::Greater arm: i runs upward over in_buffer.
RECURSIVE GreaterLoop(_, _, _, _, _, _, _)
GreaterLoop(b, inb, i, inLen, sum, inCh, outCh) ==
  IF i >= inLen THEN b
  ELSE LET sum1 == sum + inb[i + 1]
       IN IF (i + 1) % inCh = 0
          THEN LET frame == (i \div inCh) * outCh
                   mean == TruncDiv(sum1, inCh)
               IN GreaterLoop([k \in 1..Len(b) |->
                                 IF k > frame /\ k <= frame + outCh THEN mean ELSE b[k]],
                              inb, i + 1, inLen, 0, inCh, outCh)
          ELSE GreaterLoop(b, inb, i + 1, inLen, sum1, inCh, outCh)

DivUp(a, b) == (a \div b) + (IF a % b # 0 THEN 1 ELSE 0)

\* usize arithmetic. With overflow checks an underflow panics; without, it
\* wraps to 2^64 + (a - b). TLC's integers are 32 bits wide, so a wrapped
\* value is kept as the negative number v that stands for 2^64 + v: the
\* sizes of the model are far below 2^31, so v < 0 iff the value wrapped.
\* [v, fault]
SubUsize(a, b) ==
  IF a >= b THEN [v |-> a - b, fault |-> FALSE]
  ELSE IF OverflowChecks THEN [v |-> 0, fault |-> TRUE]
  ELSE [v |-> a - b, fault |-> FALSE]

\* a * b for a small a > 0: when b stands for 2^64 + b the product wraps to
\* 2^64 + a * b, again kept as the negative a * b.
MulUsize(a, b) == [v |-> a * b, fault |-> b < 0 /\ OverflowChecks]

Wrapped(v) == v < 0

\* One interpolated sample: in[j]*(1-t) + in[j+ch]*t with t = r/outLen,
\* truncated toward zero. The code computes it in f32; the model computes
\* the exact quotient.
Interpolate(a, bb, r, outLen) == Clamp(TruncDiv(a * (outLen - r) + bb * r, outLen))

RECURSIVE SrcReset(_)
RECURSIVE SrcWrite(_, _)
RECURSIVE RateLoop(_, _, _)

\* A converter with nothing to convert hands the call to its inner source
\* (the Ordering::Equal arm of ChannelConverter::write_samples, the equal
\* rates of SampleRateConverter::write_samples): r is what `inner` returned.
Forward(d, r) ==
  [d |-> [d EXCEPT !.inner = r.d], b |-> r.b, n |-> r.n, fault |-> r.fault]

\* Ordering::Less arm: the inner source wrote r into the first `want`
\* samples of the output slice b, which are then spread in place.
ChannelLess(d, b, want, r, inCh, outCh) ==
  LET b1 == [k \in 1..Len(b) |-> IF k <= want THEN r.b[k] ELSE b[k]]
  IN [d |-> [d EXCEPT !.inner = r.d],
      b |-> IF r.fault THEN b1 ELSE LessLoop(b1, r.n - 1, 0, inCh, outCh),
      n |-> (r.n * outCh) \div inCh,
      fault |-> r.fault]

\* Ordering::Greater arm: the inner source wrote r into the first `len`
\* samples of in_buffer (inb0, already grown), which are then averaged.
ChannelGreater(d, b, inb0, len, r, inCh, outCh) ==
  LET inb1 == [k \in 1..Len(inb0) |-> IF k <= len THEN r.b[k] ELSE inb0[k]]
  IN [d |-> [d EXCEPT !.inner = r.d, !.in_buffer = inb1],
      b |-> IF r.fault THEN b ELSE GreaterLoop(b, inb1, 0, r.n, 0, inCh, outCh),
      n |-> (r.n * outCh) \div inCh,
      fault |-> r.fault]

\* ChannelConverter::write_samples
ChannelWrite(d, b) ==
  LET outCh == d.channels
      inCh == SrcChannels(d.inner)
      len == (Len(b) \div outCh) * inCh
      inb0 == IF len > Len(d.in_buffer)
              THEN d.in_buffer \o Zeros(len - Len(d.in_buffer))
              ELSE d.in_buffer
  IN IF inCh = outCh THEN Forward(d, SrcWrite(d.inner, b))
     ELSE IF inCh < outCh
     THEN ChannelLess(d, b, len, SrcWrite(d.inner, SubSeq(b, 1, len)), inCh, outCh)
     ELSE ChannelGreater(d, b, inb0, len, SrcWrite(d.inner, SubSeq(inb0, 1, len)),
                         inCh, outCh)

\* ChannelConverter::reset, r being what inner.reset() returned.
ChannelReset(d, r) == [d |-> [d EXCEPT !.inner = r.d], fault |-> r.fault]

\* SampleRateConverter::reset after inner.reset(): w is what the inner
\* source wrote into in_buffer.
RateResetFill(d, w) ==
  LET sub == SubUsize(w.n, SrcChannels(d.inner))
  IN IF w.fault \/ sub.fault
     THEN [d |-> [d EXCEPT !.inner = w.d, !.in_buffer = w.b], fault |-> TRUE]
     ELSE [d |-> [d EXCEPT !.inner = w.d, !.in_buffer = w.b, !.len = sub.v, !.iter = 0],
           fault |-> FALSE]

\* SampleRateConverter::reset, ir being what inner.reset() returned.
RateResetInner(d, ir) ==
  IF ir.fault THEN [d |-> [d EXCEPT !.inner = ir.d], fault |-> TRUE]
  ELSE RateResetFill(d, SrcWrite(ir.d, d.in_buffer))

\* SampleRateConverter::reset
RateReset(d) == RateResetInner(d, SrcReset(d.inner))

\* A turn of the loop that moves the cursor two frames on for one frame out.
RateStepSkips(d, b, i, ch, inLen) ==
  LET pos == (d.iter \div ch) * inLen
      j == (pos \div d.out_len) * ch
      r == pos % d.out_len
  IN IF i + ch > Len(b) \/ j + 2 * ch > Len(d.in_buffer)
     THEN [d |-> d, b |-> b, n |-> i, fault |-> TRUE]
     ELSE RateLoop([d EXCEPT !.iter = d.iter + 2 * ch],
                   [k \in 1..Len(b) |->
                      IF k > i /\ k <= i + ch
                      THEN Interpolate(d.in_buffer[j + (k - i)],
                                       d.in_buffer[j + (k - i) + ch],
                                       r, d.out_len)
                      ELSE b[k]],
                   i + ch)

\* One turn of the while loop of SampleRateConverter::write_samples past the
\* refill: the frame at output index i is interpolated from in_buffer.
RateStep(d, b, i, ch, inLen) ==
  LET pos == (d.iter \div ch) * inLen
      j == (pos \div d.out_len) * ch
      r == pos % d.out_len
  IN IF i + ch > Len(b) \/ j + 2 * ch > Len(d.in_buffer)
     THEN [d |-> d, b |-> b, n |-> i, fault |-> TRUE]
     ELSE RateLoop([d EXCEPT !.iter = d.iter + ch],
                   [k \in 1..Len(b) |->
                      IF k > i /\ k <= i + ch
                      THEN Interpolate(d.in_buffer[j + (k - i)],
                                       d.in_buffer[j + (k - i) + ch],
                                       r, d.out_len)
                      ELSE b[k]],
                   i + ch)

\* The refill of in_buffer: `carried` is in_buffer after copy_within, w what
\* the inner source wrote behind the carried frame.
RateRefill(d, b, i, ch, inLen, carried, w) ==
  LET d1 == [d EXCEPT !.inner = w.d,
                      !.in_buffer = SubSeq(carried, 1, ch) \o w.b,
                      !.len = w.n,
                      !.iter = 0]
  IN IF w.fault THEN [d |-> d1, b |-> b, n |-> i, fault |-> TRUE]
     ELSE RateStep(d1, b, i, ch, inLen)

\* The while loop of SampleRateConverter::write_samples, from output index i.
RateLoop(d, b, i) ==
  IF i >= Len(b) THEN [d |-> d, b |-> b, n |-> Len(b), fault |-> FALSE]
  ELSE
    LET ch == SrcChannels(d.inner)
        inLen == Len(d.in_buffer) - ch
        mul == MulUsize(d.out_len, d.len)
        currOutLen == (DivUp(mul.v, inLen) \div ch) * ch
        \* a wrapped product divided by in_len is still far above iter
        refill == ~Wrapped(mul.v) /\ d.iter >= currOutLen
        tail == SubSeq(d.in_buffer, d.len + 1, Len(d.in_buffer))
        carried == [k \in 1..Len(d.in_buffer) |->
                      IF k <= Len(tail) THEN tail[k] ELSE d.in_buffer[k]]
    IN IF mul.fault THEN [d |-> d, b |-> b, n |-> i, fault |-> TRUE]
       ELSE IF ~refill THEN RateStep(d, b, i, ch, inLen)
       ELSE IF d.len < inLen THEN [d |-> d, b |-> b, n |-> i, fault |-> FALSE]
       ELSE IF d.len > Len(d.in_buffer) THEN [d |-> d, b |-> b, n |-> i, fault |-> TRUE]
       ELSE RateRefill(d, b, i, ch, inLen, carried,
                       SrcWrite(d.inner, SubSeq(carried, ch + 1, Len(carried))))

\* A write_samples that starts every call at the beginning of its cycle.
RateWriteRestarts(d, b) ==
  IF d.output_sample_rate = SrcRate(d.inner)
  THEN Forward(d, SrcWrite(d.inner, b))
  ELSE RateLoop([d EXCEPT !.iter = 0], b, 0)

\* SampleRateConverter::write_samples
RateWrite(d, b) ==
  IF d.output_sample_rate = SrcRate(d.inner)
  THEN Forward(d, SrcWrite(d.inner, b))
  ELSE RateLoop(d, b, 0)

\* SoundSource::reset
SrcReset(d) ==
  IF d.kind = "buffer" THEN [d |-> [d EXCEPT !.i = 0], fault |-> FALSE]
  ELSE IF d.kind = "channel" THEN ChannelReset(d, SrcReset(d.inner))
  ELSE RateReset(d)

\* SoundSource::write_samples
SrcWrite(d, b) ==
  IF d.kind = "buffer" THEN BufferWrite(d, b)
  ELSE IF d.kind = "channel" THEN ChannelWrite(d, b)
  ELSE RateWrite(d, b)

ChannelConverter(inner, ch) ==
  [kind |-> "channel", inner |-> inner, channels |-> ch, in_buffer |-> <<>>]

\* SampleRateConverter::new; [d, fault] since it ends with a reset.
SampleRateConverter(inner, outRate) ==
  LET gcd == Gcd(SrcRate(inner), outRate)
      ch == SrcChannels(inner)
      inLen == (SrcRate(inner) \div gcd) * ch
      outLen == (outRate \div gcd) * ch
  IN RateReset([kind |-> "rate", inner |-> inner, output_sample_rate |-> outRate,
                in_buffer |-> Zeros(inLen + ch), out_len |-> outLen,
                len |-> inLen + ch - 1, iter |-> outLen])

\* ------------------------------------------------------------------ Mixer
\* The placeholder set_config leaves in an entry while it rewraps its source.
Nop == [kind |-> "nop", channels |-> 0, sample_rate |-> 0]

\* SoundInner::new
SoundInner(id, group, data) ==
  [id |-> id, data |-> data, volume |-> VolUnit, group |-> group,
   looping |-> FALSE, drop |-> TRUE]

\* The scan `for i in (lo..hi).rev()` for the entry with the given id: the
\* greatest position in lo+1..hi holding it, 0 when there is none.
RECURSIVE FindLast(_, _, _, _)
FindLast(s, id, lo, hi) ==
  IF hi <= lo THEN 0
  ELSE IF s[hi].id = id THEN hi
  ELSE FindLast(s, id, lo, hi - 1)

Ids(s) == {s[k].id : k \in 1..Len(s)}

\* What the last operation was, and for write_samples what it was handed
\* and what it produced: the length n of the buffer, the value returned
\* (-1 when the call did not return), the buffer left to the caller, the
\* ids pulled (in order), the ids of the entries that ended and the ids of
\* the entries whose source came back short at least once.
Last(op, id) ==
  [op |-> op, id |-> id, n |-> 0, ret |-> 0, out |-> <<>>,
   pulled |-> <<>>, ended |-> <<>>, eos |-> <<>>]

\* The samples of the sources added: MaxSrcLen frames, 4, 8, ...
SrcSamples == {[k \in 1..MaxSrcLen |-> 4 * k]}

\* alloc.other is the `sounds` of a second Mixer, alloc.fetched maps a Mixer
\* (1 is this one, 2 the second) to the id its add_sound in progress took
\* from the counter, alloc.returned lists the ids add_sound returned.
\* Here: an empty second Mixer, no add_sound in progress, none returned.
NoAlloc == [other |-> <<>>, fetched |-> <<>>, returned |-> <<>>]

\* conv.d is the converter, conv.out the samples its write_samples calls
\* returned since it was built or reset, one after the other, conv.fault
\* says that a call on it panicked. Here: no converter driven on its own.
NoConv == [d |-> Nop, out |-> <<>>, fault |-> FALSE]

\* lock.holder is the thread holding the Mutex<Mixer>, "free" or "poisoned"
\* (a thread panicked while holding it); lock.app, lock.backend and
\* lock.audio say how far the thread in new_sound_with_group, the one in
\* create_device and the one in the stream's callback are;
\* lock.pend is the source new_sound_with_group has wrapped and not yet added.
\* Here: nobody holds the lock, no call is under way.
NoLock == [holder |-> "free", app |-> "idle", backend |-> "idle",
           audio |-> "idle", pend |-> <<>>]

\* backend.target is the build's target ("native" and "android" spawn a
\* backend thread, "android" forgets a stream where the others drop it,
\* "wasm32" creates the device in the constructor), backend.device what the
\* host answers create_device now and backend.at_new what it answered when the
\* constructor ran (history), backend.ret what the constructor returned,
\* backend.engine the state of the AudioEngine value, backend.thread the state
\* of the backend thread, backend.queue the events sent and not yet received,
\* backend.stream says whether a stream is open, backend.handled is the flag of
\* that stream's error callback, backend.errors counts the stream errors,
\* backend.sent the RecreateStream events that stream's callback has sent
\* (history) and backend.leaked the streams forgotten without being closed.
\* Here: no engine was constructed.
NoBackend == [target |-> "native", device |-> "ok", at_new |-> "none",
              ret |-> "none", engine |-> "none", thread |-> "none",
              queue |-> <<>>, stream |-> FALSE, handled |-> FALSE,
              errors |-> 0, sent |-> 0, leaked |-> 0,
              ranges |-> <<>>, configs |-> <<>>, tried |-> <<>>,
              created |-> "none"]

Init ==
  /\ sounds = <<>>
  /\ playing = 0
  /\ channels = 1
  /\ sample_rate = 1
  /\ group_volumes = <<>>
  /\ next_id = 0
  /\ status = "ok"
  /\ build \in {"debug", "release"}
  /\ tunes = 0
  /\ logical = {}
  /\ last = Last("new", 0)
  /\ handles = {}
  /\ alloc = NoAlloc
  /\ lock = NoLock
  /\ backend = NoBackend
  /\ conv = NoConv

\* Mixer::add_sound, with a one-channel source at rate 1.
AddSound(group, samples) ==
  /\ status = "ok"
  /\ next_id < MaxSounds
  /\ sounds' = Append(sounds, SoundInner(next_id, group, BufferSource(1, 1, samples)))
  /\ next_id' = next_id + 1
  /\ last' = Last("add_sound", next_id)
  /\ UNCHANGED <<playing, channels, sample_rate, group_volumes, status, build, outside,
                 tunes, logical>>

\* Mixer::play
Play(id) ==
  LET p == FindLast(sounds, id, playing, Len(sounds))
  IN /\ status = "ok"
     /\ IF p = 0
        THEN UNCHANGED <<sounds, playing>>
        ELSE /\ sounds' = Swap(sounds, playing + 1, p)
             /\ playing' = playing + 1
     /\ logical' = IF id \in Ids(sounds) THEN logical \cup {id} ELSE logical
     /\ last' = Last("play", id)
     /\ UNCHANGED <<channels, sample_rate, group_volumes, next_id, status, build, outside, tunes>>

\* Mixer::pause. The scan starts at code index playing - 1, which is outside
\* the vector when playing > len: the first comparison panics.
Pause(id) ==
  LET p == FindLast(sounds, id, 0, playing)
  IN /\ status = "ok"
     /\ IF playing > Len(sounds)
        THEN /\ status' = "panicked"
             /\ UNCHANGED <<sounds, playing>>
        ELSE /\ status' = status
             /\ IF p = 0
                THEN UNCHANGED <<sounds, playing>>
                ELSE /\ playing' = playing - 1
                     /\ sounds' = Swap(sounds, playing, p)
     /\ logical' = logical \ {id}
     /\ last' = Last("pause", id)
     /\ UNCHANGED <<channels, sample_rate, group_volumes, next_id, build, outside, tunes>>

\* The end of Mixer::stop: s1 is `sounds` after the removal or the reset of
\* the entry found at position p. [sounds, playing, fault]
StopMove(s1, p) ==
  LET move == p - 1 < playing /\ playing < Len(s1)
  IN [sounds |-> IF move THEN Swap(s1, playing, p) ELSE s1,
      playing |-> IF move THEN playing - 1 ELSE playing,
      fault |-> FALSE]

\* The `else` arm of Mixer::stop, r being what data.reset() returned.
StopReset(p, r) ==
  IF r.fault
  THEN [sounds |-> [sounds EXCEPT ![p].data = r.d], playing |-> playing, fault |-> TRUE]
  ELSE StopMove([sounds EXCEPT ![p].data = r.d], p)

\* The body of Mixer::stop for the entry found at position p.
StopAt(p) ==
  IF sounds[p].drop THEN StopMove(SwapRemove(sounds, p), p)
  ELSE StopReset(p, SrcReset(sounds[p].data))

\* Mixer::stop
Stop(id) ==
  LET p == FindLast(sounds, id, 0, Len(sounds))
  IN /\ status = "ok"
     /\ IF p = 0
        THEN UNCHANGED <<sounds, playing, status>>
        ELSE \E r \in {StopAt(p)} :
               /\ sounds' = r.sounds
               /\ playing' = r.playing
               /\ status' = IF r.fault THEN "panicked" ELSE status
     /\ logical' = (logical \ {id}) \cap Ids(sounds')
     /\ last' = Last("stop", id)
     /\ UNCHANGED <<channels, sample_rate, group_volumes, next_id, build, outside, tunes>>

\* Mixer::reset
Reset(id) ==
  LET p == FindLast(sounds, id, 0, Len(sounds))
  IN /\ status = "ok"
     /\ IF p = 0
        THEN UNCHANGED <<sounds, status>>
        ELSE \E r \in {SrcReset(sounds[p].data)} :
               /\ sounds' = [sounds EXCEPT ![p].data = r.d]
               /\ status' = IF r.fault THEN "panicked" ELSE status
     /\ last' = Last("reset", id)
     /\ UNCHANGED <<playing, channels, sample_rate, group_volumes, next_id, build, outside,
                    tunes, logical>>

\* The entry Mixer::set_loop leaves at position p.
SetLoopAt(snd, looping) == [snd EXCEPT !.looping = looping]

\* Mixer::set_loop
SetLoop(id, looping) ==
  LET p == FindLast(sounds, id, 0, Len(sounds))
  IN /\ status = "ok"
     /\ sounds' = IF p = 0 THEN sounds
                  ELSE [sounds EXCEPT ![p] = SetLoopAt(sounds[p], looping)]
     /\ last' = Last("set_loop", id)
     /\ UNCHANGED <<playing, channels, sample_rate, group_volumes, next_id, status,
                    build, outside, tunes, logical>>

\* Mixer::set_volume. Calls to set_volume, set_group_volume and set_config
\* are counted in `tunes`, which the specification caps at MaxTune.
SetVolume(id, volume) ==
  LET p == FindLast(sounds, id, 0, Len(sounds))
  IN /\ status = "ok"
     /\ tunes < MaxTune
     /\ tunes' = tunes + 1
     /\ sounds' = IF p = 0 THEN sounds ELSE [sounds EXCEPT ![p].volume = volume]
     /\ last' = Last("set_volume", id)
     /\ UNCHANGED <<playing, channels, sample_rate, group_volumes, next_id, status,
                    build, outside, logical>>

\* Mixer::set_group_volume (HashMap::insert)
SetGroupVolume(group, volume) ==
  /\ status = "ok"
  /\ group_volumes' = [g \in DOMAIN group_volumes \cup {group} |->
                         IF g = group THEN volume ELSE group_volumes[g]]
  /\ tunes < MaxTune
  /\ tunes' = tunes + 1
  /\ last' = Last("set_group_volume", 0)
  /\ UNCHANGED <<sounds, playing, channels, sample_rate, next_id, status, build, outside,
                 logical>>

\* Mixer::mark_to_remove
MarkToRemove(id, drop) ==
  LET p == FindLast(sounds, id, 0, Len(sounds))
  IN /\ status = "ok"
     /\ sounds' = IF p = 0 THEN sounds ELSE [sounds EXCEPT ![p].drop = drop]
     /\ last' = Last("mark_to_remove", id)
     /\ UNCHANGED <<playing, channels, sample_rate, group_volumes, next_id, status,
                    build, outside, tunes, logical>>

\* The inner `loop` of Mixer::write_samples for one entry: pull into the
\* scratch buffer from index len on; a short pull resets the source and, if
\* the entry loops, pulls again. `fresh` says the source was reset just
\* before this pull: a looping source that yields nothing right after a
\* reset yields nothing forever, and the loop never ends (hang).
\* [d, buf, len, fault, hang, eos]
RECURSIVE PullLoop(_, _, _, _, _)

\* After a short pull: r is what data.reset() returned, `stuck` says the
\* pull that came back short was a fresh one that yielded nothing.
PullEnd(buf, len, looping, stuck, r) ==
  LET res == [d |-> r.d, buf |-> buf, len |-> len, fault |-> FALSE, hang |-> FALSE,
              eos |-> TRUE]
  IN IF r.fault THEN [res EXCEPT !.fault = TRUE]
     ELSE IF ~looping THEN res
     ELSE IF stuck THEN [res EXCEPT !.hang = TRUE]
     ELSE PullLoop(r.d, buf, len, TRUE, TRUE)

\* After a pull: w is what data.write_samples(&mut buf[len..]) returned.
\* `eos` records that some pull of the loop came back short.
PullGot(buf, len, looping, fresh, w) ==
  LET buf1 == SubSeq(buf, 1, len) \o w.b
      len1 == len + w.n
      res == [d |-> w.d, buf |-> buf1, len |-> len1, fault |-> FALSE, hang |-> FALSE,
              eos |-> fresh]
  IN IF w.fault THEN [res EXCEPT !.fault = TRUE]
     ELSE IF len1 < Len(buf)
     THEN PullEnd(buf1, len1, looping, fresh /\ w.n = 0, SrcReset(w.d))
     ELSE res

PullLoop(d, buf, len, looping, fresh) ==
  PullGot(buf, len, looping, fresh, SrcWrite(d, SubSeq(buf, len + 1, Len(buf))))

\* volume * group volume, in units of 1 / VolUnit^2.
Gain(snd, gv) ==
  snd.volume * (IF snd.group \in DOMAIN gv THEN gv[snd.group] ELSE VolUnit)

\* |volume - 1.0| < 1.0 / i16::max_value()
NearUnity(gain) ==
  LET diff == gain - VolUnit * VolUnit
  IN (IF diff < 0 THEN -diff ELSE diff) * I16Max < VolUnit * VolUnit

\* (buf[i] as f32 * volume) as i16
Scale(x, gain) ==
  IF NearUnity(gain) THEN x ELSE Clamp(TruncDiv(x * gain, VolUnit * VolUnit))

\* The accumulation of the first len scratch samples into the out buffer.
MixInto(buffer, buf, len, gain) ==
  [k \in 1..Len(buffer) |->
     IF k <= len THEN SatAdd(buffer[k], Scale(buf[k], gain)) ELSE buffer[k]]

\* What write_samples does with the entry at code index s once its pull
\* came back short: [sounds, playing].
EndEntry(snds, play, s) ==
  LET s2 == IF snds[s + 1].drop THEN SwapRemove(snds, s + 1) ELSE snds
      p2 == play - 1
  IN [sounds |-> IF p2 > 0 /\ p2 < Len(s2) THEN Swap(s2, s + 1, p2 + 1) ELSE s2,
      playing |-> p2]

\* The `while s < self.playing` loop of Mixer::write_samples over the record
\* m = [sounds, playing, s, buffer, buf, status, pulled, ended, eos]:
\* pulled, ended and eos list the ids of the entries pulled, of those whose
\* pull ended short, and of those whose source reached its end.
RECURSIVE MixLoop(_)

\* One turn of the loop for the entry at code index m.s, p being what the
\* inner pull loop returned for it.
MixEntry(m, p) ==
  LET snd == m.sounds[m.s + 1]
      snds1 == [m.sounds EXCEPT ![m.s + 1].data = p.d]
      m1 == [m EXCEPT !.sounds = snds1, !.buf = p.buf,
                      !.pulled = Append(m.pulled, snd.id),
                      !.eos = IF p.eos THEN Append(m.eos, snd.id) ELSE m.eos]
      mixed == MixInto(m.buffer, p.buf, p.len, Gain(snd, group_volumes))
      e == EndEntry(snds1, m.playing, m.s)
  IN IF p.fault THEN [m1 EXCEPT !.status = "panicked"]
     ELSE IF p.hang THEN [m1 EXCEPT !.status = "hung"]
     ELSE MixLoop(IF p.len < Len(m.buffer)
                  THEN [m1 EXCEPT !.buffer = mixed,
                                  !.sounds = e.sounds,
                                  !.playing = e.playing,
                                  !.ended = Append(m.ended, snd.id)]
                  ELSE [m1 EXCEPT !.buffer = mixed, !.s = m.s + 1])

MixLoop(m) ==
  IF m.status # "ok" \/ ~(m.s < m.playing) THEN m
  ELSE IF m.s + 1 > Len(m.sounds) THEN [m EXCEPT !.status = "panicked"]
  ELSE MixEntry(m, PullLoop(m.sounds[m.s + 1].data, m.buf, 0,
                            m.sounds[m.s + 1].looping, FALSE))

\* Mixer::write_samples on a Mixer holding the entries snds, the first `play`
\* of them playing, and a buffer holding `buffer` when the call starts.
MixOn(snds, play, buffer) ==
  IF play = 0
  THEN [sounds |-> snds, playing |-> play, s |-> 0,
        buffer |-> Zeros(Len(buffer)), buf |-> <<>>, status |-> status,
        pulled |-> <<>>, ended |-> <<>>, eos |-> <<>>]
  ELSE MixLoop([sounds |-> snds, playing |-> play, s |-> 0,
                buffer |-> buffer, buf |-> Zeros(Len(buffer)), status |-> status,
                pulled |-> <<>>, ended |-> <<>>, eos |-> <<>>])

\* Mixer::write_samples on a buffer holding `buffer` when the call starts.
Mix(buffer) == MixOn(sounds, playing, buffer)

\* <Mixer as SoundSource>::write_samples, called with a buffer holding
\* `buffer`. `rec` says whether `last` keeps the samples left in the buffer.
Fill(buffer, rec) ==
  \E m \in {Mix(buffer)} :
     /\ status = "ok"
     /\ sounds' = m.sounds
     /\ playing' = m.playing
     /\ status' = m.status
     /\ logical' = (logical \ Range(m.ended)) \cap Ids(m.sounds)
     /\ last' = [op |-> "write_samples", id |-> 0, n |-> Len(buffer),
                 ret |-> IF m.status = "ok" THEN Len(m.buffer) ELSE -1,
                 out |-> IF rec THEN m.buffer ELSE <<>>,
                 pulled |-> m.pulled, ended |-> m.ended, eos |-> m.eos]
     /\ UNCHANGED <<channels, sample_rate, group_volumes, next_id, build, tunes>>

\* The same, called on a Mixer by its owner.
WriteSamples(buffer, rec) == Fill(buffer, rec) /\ UNCHANGED outside

\* set_config swaps a Nop into the entry while it builds the converter: c is
\* what SampleRateConverter::new returned, and Nop stays if it panicked.
RewrapRate(c) == IF c.fault THEN [d |-> Nop, fault |-> TRUE] ELSE c

\* The body of the `for sound in self.sounds.iter_mut()` loop of set_config:
\* the entry's source rewrapped, [d, fault].
Rewrap(d, ch, rate) ==
  LET d1 == IF SrcChannels(d) # ch THEN ChannelConverter(d, ch) ELSE d
  IN IF SrcRate(d1) # rate
     THEN RewrapRate(SampleRateConverter(d1, rate))
     ELSE [d |-> d1, fault |-> FALSE]

\* The loop itself, from position k on: it stops at the first panic.
RECURSIVE RewrapAll(_, _, _, _)

\* The loop building a new entry around the rewrapped source, which loses
\* the entry's volume and flags.
RewrapFresh(s, k, ch, rate, r) ==
  IF r.fault THEN [sounds |-> [s EXCEPT ![k].data = r.d], fault |-> TRUE]
  ELSE RewrapAll([s EXCEPT ![k] = SoundInner(s[k].id, s[k].group, r.d)],
                 k + 1, ch, rate)

\* r is the rewrapped source of the entry at position k.
RewrapPut(s, k, ch, rate, r) ==
  IF r.fault THEN [sounds |-> [s EXCEPT ![k].data = r.d], fault |-> TRUE]
  ELSE RewrapAll([s EXCEPT ![k].data = r.d], k + 1, ch, rate)

RewrapAll(s, k, ch, rate) ==
  IF k > Len(s) THEN [sounds |-> s, fault |-> FALSE]
  ELSE RewrapPut(s, k, ch, rate, Rewrap(s[k].data, ch, rate))

\* Mixer::set_config, what it does to the Mixer
Reconfigure(ch, rate) ==
  /\ status = "ok"
  /\ tunes < MaxTune
  /\ tunes' = tunes + 1
  /\ IF channels = ch /\ sample_rate = rate
     THEN UNCHANGED <<sounds, channels, sample_rate, status>>
     ELSE \E r \in {RewrapAll(sounds, 1, ch, rate)} :
            /\ sounds' = r.sounds
            /\ status' = IF r.fault THEN "panicked" ELSE status
            /\ channels' = IF r.fault THEN channels ELSE ch
            /\ sample_rate' = IF r.fault THEN sample_rate ELSE rate
  /\ last' = Last("set_config", 0)
  /\ UNCHANGED <<playing, group_volumes, next_id, build, logical>>

\* Mixer::set_config called on a Mixer by its owner.
SetConfig(ch, rate) == Reconfigure(ch, rate) /\ UNCHANGED outside

SoundIds == 0..(MaxSounds - 1)

Next ==
  \/ \E g \in AddGroups, smp \in SrcSamples : AddSound(g, smp)
  \/ \E id \in SoundIds : Play(id)
  \/ \E id \in SoundIds : Pause(id)
  \/ \E id \in SoundIds : Stop(id)
  \/ \E id \in SoundIds : Reset(id)
  \/ \E id \in SoundIds, b \in BOOLEAN : SetLoop(id, b)
  \/ \E id \in SoundIds, v \in Volumes : SetVolume(id, v)
  \/ \E g \in Groups, v \in GroupVolumes : SetGroupVolume(g, v)
  \/ \E id \in SoundIds, b \in BOOLEAN : MarkToRemove(id, b)
  \/ \E frames \in 0..MaxBuf : WriteSamples(Zeros(frames * channels), FALSE)
  \/ \E ch \in {1, 2}, rate \in {1, 2} : SetConfig(ch, rate)

Spec == Init /\ [][Next]_vars

\* ---------------------------------------------------------- AudioEngine
\* The sources handed to new_sound: one channel, at rate 1 or 2, MaxSrcLen
\* frames long.
EngineSources ==
  {BufferSource(r, 1, [k \in 1..MaxSrcLen |-> 4 * k]) : r \in {1, 2}}

\* c is what SampleRateConverter::new returned: [d, fault].
AdaptChannels(c, ch) ==
  IF c.fault THEN c ELSE [d |-> ChannelConverter(c.d, ch), fault |-> FALSE]

\* A new_sound_with_group that takes a source of any channel count.
AlwaysCompatible(source, ch) == FALSE

\* The two Err returns of new_sound_with_group: the channel counts differ
\* and neither is 1.
Incompatible(source, ch) ==
  SrcChannels(source) # ch /\ ~(ch = 1 \/ SrcChannels(source) = 1)

\* The converters new_sound_with_group wraps a source in when it does not
\* return Err, [d, fault].
Adapt(source, ch, rate) ==
  IF SrcRate(source) # rate
  THEN IF SrcChannels(source) = ch
       THEN SampleRateConverter(source, rate)
       ELSE AdaptChannels(SampleRateConverter(source, rate), ch)
  ELSE IF SrcChannels(source) = ch
       THEN [d |-> source, fault |-> FALSE]
       ELSE [d |-> ChannelConverter(source, ch), fault |-> FALSE]

\* AudioEngine::with_groups followed by the backend's create_device: an empty
\* Mixer set to the device's channels, one or two, and to its sample rate, 2.
EngineInit ==
  /\ sounds = <<>>
  /\ playing = 0
  /\ channels \in {1, 2}
  /\ sample_rate = 2
  /\ group_volumes = <<>>
  /\ next_id = 0
  /\ status = "ok"
  /\ build \in {"debug", "release"}
  /\ tunes = 0
  /\ logical = {}
  /\ last = Last("new", 0)
  /\ handles = {}
  /\ alloc = NoAlloc
  /\ lock = NoLock
  /\ backend = NoBackend
  /\ conv = NoConv

\* new_sound_with_group without its call of mark_to_remove(id, false).
NewSoundRemovable(group, source) ==
  /\ status = "ok"
  /\ next_id < MaxSounds
  /\ \E a \in {Adapt(source, channels, sample_rate)} :
       IF Incompatible(source, channels)
       THEN UNCHANGED <<sounds, next_id, handles, status>>
       ELSE IF a.fault
       THEN /\ status' = "panicked"
            /\ UNCHANGED <<sounds, next_id, handles>>
       ELSE /\ sounds' = Append(sounds, SoundInner(next_id, group, a.d))
            /\ next_id' = next_id + 1
            /\ handles' = handles \cup {next_id}
            /\ status' = status
  /\ last' = [Last("new_sound", next_id) EXCEPT
                !.ret = IF Incompatible(source, channels) THEN -1 ELSE 0]
  /\ UNCHANGED <<playing, channels, sample_rate, group_volumes, build, tunes,
                 logical, alloc, conv, lock,
                 backend>>

\* AudioEngine::new_sound_with_group: under one lock, return Err (-1 in
\* last.ret) or wrap the source, add it and mark it not to be removed; the
\* handle carries the id.
NewSound(group, source) ==
  /\ status = "ok"
  /\ next_id < MaxSounds
  /\ \E a \in {Adapt(source, channels, sample_rate)} :
       IF Incompatible(source, channels)
       THEN UNCHANGED <<sounds, next_id, handles, status>>
       ELSE IF a.fault
       THEN /\ status' = "panicked"
            /\ UNCHANGED <<sounds, next_id, handles>>
       ELSE /\ sounds' = Append(sounds,
                           [SoundInner(next_id, group, a.d) EXCEPT !.drop = FALSE])
            /\ next_id' = next_id + 1
            /\ handles' = handles \cup {next_id}
            /\ status' = status
  /\ last' = [Last("new_sound", next_id) EXCEPT
                !.ret = IF Incompatible(source, channels) THEN -1 ELSE 0]
  /\ UNCHANGED <<playing, channels, sample_rate, group_volumes, build, tunes,
                 logical, alloc, conv, lock,
                 backend>>

\* The methods of Sound: each locks the Mixer and forwards its id.
SoundPlay(id) == id \in handles /\ Play(id)

SoundPause(id) == id \in handles /\ Pause(id)

SoundStop(id) == id \in handles /\ Stop(id)

SoundReset(id) == id \in handles /\ Reset(id)

SoundSetVolume(id, volume) == id \in handles /\ SetVolume(id, volume)

SoundSetLoop(id, looping) == id \in handles /\ SetLoop(id, looping)

\* A Drop that lets go of the handle and leaves the entry's flag as it was.
SoundDropForgets(id) ==
  /\ status = "ok"
  /\ id \in handles
  /\ handles' = handles \ {id}
  /\ last' = Last("drop", id)
  /\ UNCHANGED <<sounds, playing, channels, sample_rate, group_volumes, next_id,
                 status, build, tunes, logical, alloc, conv, lock,
                 backend>>

\* Drop for Sound: the entry is marked to be removed when it ends, nothing
\* else of it changes, and the handle is gone.
SoundDrop(id) ==
  LET p == FindLast(sounds, id, 0, Len(sounds))
  IN /\ status = "ok"
     /\ id \in handles
     /\ sounds' = IF p = 0 THEN sounds ELSE [sounds EXCEPT ![p].drop = TRUE]
     /\ handles' = handles \ {id}
     /\ last' = Last("drop", id)
     /\ UNCHANGED <<playing, channels, sample_rate, group_volumes, next_id, status,
                    build, tunes, logical, alloc, conv, lock,
                 backend>>

\* The data callback of the output stream: a zeroed buffer of whole frames
\* is handed to Mixer::write_samples.
Callback(frames) == WriteSamples(Zeros(frames * channels), FALSE)

EngineNext ==
  \/ \E g \in AddGroups, src \in EngineSources : NewSound(g, src)
  \/ \E id \in SoundIds : SoundPlay(id)
  \/ \E id \in SoundIds : SoundPause(id)
  \/ \E id \in SoundIds : SoundStop(id)
  \/ \E id \in SoundIds : SoundReset(id)
  \/ \E id \in SoundIds, v \in Volumes : SoundSetVolume(id, v)
  \/ \E id \in SoundIds, b \in BOOLEAN : SoundSetLoop(id, b)
  \/ \E id \in SoundIds : SoundDrop(id)
  \/ \E frames \in 0..MaxBuf : Callback(frames)

SpecEngine == EngineInit /\ [][EngineNext]_vars

\* A running output stream keeps calling its data callback: the device asks
\* for a non-empty buffer again and again for as long as the calls return.
\* This is WF_vars(\E frames \in 1..MaxBuf : Callback(frames)) written out:
\* the callback can be called exactly while status is "ok", and the steps
\* that leave a write_samples over a non-empty buffer in `last` are its steps.
SpecEngineFair ==
  /\ SpecEngine
  /\ \/ []<>(status # "ok")
     \/ []<><<last'.op = "write_samples" /\ last'.n > 0>>_vars

\* Sounds created on devices of one to three channels from sources of one
\* to three channels, at either rate.
AnySources ==
  {BufferSource(r, c, [k \in 1..(MaxSrcLen * c) |-> 4 * k]) : r \in {1, 2}, c \in ChannelCounts}

NewSoundInit ==
  /\ sounds = <<>>
  /\ playing = 0
  /\ channels \in ChannelCounts
  /\ sample_rate \in {1, 2}
  /\ group_volumes = <<>>
  /\ next_id = 0
  /\ status = "ok"
  /\ build \in {"debug", "release"}
  /\ tunes = 0
  /\ logical = {}
  /\ last = Last("new", 0)
  /\ handles = {}
  /\ alloc = NoAlloc
  /\ lock = NoLock
  /\ backend = NoBackend
  /\ conv = NoConv

NewSoundNext ==
  \/ \E g \in AddGroups, src \in AnySources : NewSound(g, src)
  \/ \E id \in SoundIds : SoundPlay(id)
  \/ \E frames \in 0..MaxBuf : Callback(frames)

SpecNewSound == NewSoundInit /\ [][NewSoundNext]_vars

\* ------------------------------------------- the lock around the Mixer
\* new_sound_with_group on one thread and create_device's set_config on the
\* backend thread, each a sequence of steps between taking the Mutex and
\* dropping its guard; the stream callback and Sound::play lock, act and
\* unlock in one step.

\* A lock that records no holder: any thread passes.
Unguarded(t) == "free"

\* Mutex::lock, what lock.holder becomes when thread t gets the lock.
Holder(t) == t

\* `self.mixer.lock().unwrap()`: thread t takes the lock once it is free.
LockMixer(t) ==
  /\ status = "ok"
  /\ lock.holder = "free"
  /\ lock[t] = "idle"
  /\ t = "app" => next_id < MaxSounds
  /\ t = "backend" => tunes < MaxTune
  /\ lock' = [lock EXCEPT !.holder = Holder(t), ![t] = "locked"]
  /\ UNCHANGED <<sounds, playing, channels, sample_rate, group_volumes, next_id,
                 status, build, tunes, logical, last, handles, alloc, conv,
                 backend>>

\* new_sound_with_group from the lock to `let sound = ...;`: the source is
\* compared with the Mixer's format and wrapped, or Err is returned and the
\* guard dropped; a panic in SampleRateConverter::new poisons the lock.
NewSoundWrap(group, source) ==
  /\ status = "ok"
  /\ lock.app = "locked"
  /\ \E a \in {Adapt(source, channels, sample_rate)} :
       IF Incompatible(source, channels)
       THEN /\ lock' = [lock EXCEPT !.holder = "free", !.app = "idle"]
            /\ last' = [Last("new_sound", next_id) EXCEPT !.ret = -1]
            /\ status' = status
       ELSE IF a.fault
       THEN /\ lock' = [lock EXCEPT !.holder = "poisoned", !.app = "dead"]
            /\ last' = Last("new_sound", next_id)
            /\ status' = "panicked"
       ELSE /\ lock' = [lock EXCEPT !.app = "wrapped",
                                    !.pend = <<[group |-> group, d |-> a.d]>>]
            /\ UNCHANGED <<last, status>>
  /\ UNCHANGED <<sounds, playing, channels, sample_rate, group_volumes, next_id,
                 build, tunes, logical, handles, alloc, conv, backend>>

\* new_sound_with_group from add_sound to drop(mixer) and the handle.
NewSoundAdd ==
  /\ status = "ok"
  /\ lock.app = "wrapped"
  /\ sounds' = Append(sounds,
                 [SoundInner(next_id, lock.pend[1].group, lock.pend[1].d)
                    EXCEPT !.drop = FALSE])
  /\ next_id' = next_id + 1
  /\ handles' = handles \cup {next_id}
  /\ lock' = [lock EXCEPT !.holder = "free", !.app = "idle", !.pend = <<>>]
  /\ last' = Last("new_sound", next_id)
  /\ UNCHANGED <<playing, channels, sample_rate, group_volumes, status, build,
                 tunes, logical, alloc, conv, backend>>

\* create_device: `mixer.lock().unwrap().set_config(..)` after the lock was
\* taken; the guard is dropped at the end of the statement, and a panic in
\* set_config poisons the lock.
DeviceConfig(ch, rate) ==
  /\ lock.backend = "locked"
  /\ Reconfigure(ch, rate)
  /\ lock' = IF status' = "panicked"
             THEN [lock EXCEPT !.holder = "poisoned", !.backend = "dead"]
             ELSE [lock EXCEPT !.holder = "free", !.backend = "idle"]
  /\ UNCHANGED <<handles, alloc, conv, backend>>

\* The device's formats create_device may choose.
DeviceRates == {1, 2}

ConfigNext ==
  \/ \E t \in {"app", "backend"} : LockMixer(t)
  \/ \E g \in AddGroups, src \in AnySources : NewSoundWrap(g, src)
  \/ NewSoundAdd
  \/ \E ch \in ChannelCounts, rate \in DeviceRates : DeviceConfig(ch, rate)
  \/ \E id \in SoundIds : lock.holder = "free" /\ SoundPlay(id)
  \/ \E frames \in 1..MaxBuf : lock.holder = "free" /\ Callback(frames)

SpecConfig == NewSoundInit /\ [][ConfigNext]_vars

\* ---------------------------------------------------------- the backend
\* The AudioEngine's constructor, the backend thread with its event channel,
\* the stream's error callback and the drop of the engine.
MaxErrors == 2

Targets == {"native", "android", "wasm32"}

\* What create_device meets: a device with a usable config, no default
\* output device, a failing supported_output_configs, or no config that
\* builds a stream.
Devices == {"ok", "none", "query", "noconfig"}

\* What a step of the backend leaves alone.
beside == <<playing, group_volumes, next_id, build, logical, handles, alloc,
            conv, lock>>

\* Before the constructor: Mixer::new(2, SampleRate(48000)) is what with_groups
\* starts from; 2 stands for the rate 48000.
BackendInit ==
  /\ sounds = <<>>
  /\ playing = 0
  /\ channels = 2
  /\ sample_rate = 2
  /\ group_volumes = <<>>
  /\ next_id = 0
  /\ status = "ok"
  /\ build \in {"debug", "release"}
  /\ tunes = 0
  /\ logical = {}
  /\ last = Last("new", 0)
  /\ handles = {}
  /\ alloc = NoAlloc
  /\ lock = NoLock
  /\ conv = NoConv
  /\ backend \in {[NoBackend EXCEPT !.target = tg, !.device = dv] :
                    tg \in Targets, dv \in Devices}

\* create_device's set_config: the format changes while the count of changes
\* allows it, afterwards the device keeps the format it had.
Configure(ch, rate) ==
  IF tunes < MaxTune
  THEN Reconfigure(ch, rate)
  ELSE /\ status = "ok"
       /\ ch = channels
       /\ rate = sample_rate
       /\ UNCHANGED <<sounds, channels, sample_rate, status, tunes, last,
                      playing, group_volumes, next_id, build, logical>>

\* The native Backend::start spawns the thread and returns Ok without having
\* looked at the device; the wasm32 one returns create_device's Err.
StartReturns(target) == IF target = "wasm32" THEN "Err" ELSE "Ok"

\* AudioEngine::with_groups on a host without a usable device.
WithGroupsNoDevice ==
  /\ backend.engine = "none"
  /\ backend.ret = "none"
  /\ backend.device # "ok"
  /\ \E r \in {StartReturns(backend.target)} :
       backend' = [backend EXCEPT
                     !.at_new = backend.device,
                     !.ret = r,
                     !.engine = IF r = "Ok" THEN "alive" ELSE "none",
                     !.thread = IF r = "Ok" THEN "spawned" ELSE "none"]
  /\ UNCHANGED <<sounds, channels, sample_rate, status, tunes, last, beside>>

\* AudioEngine::with_groups on a host with a device: the native build spawns
\* the thread, the wasm32 build sets the Mixer's format and opens the stream.
WithGroups(ch, rate) ==
  /\ backend.engine = "none"
  /\ backend.ret = "none"
  /\ backend.device = "ok"
  /\ IF backend.target # "wasm32"
     THEN /\ backend' = [backend EXCEPT !.at_new = "ok", !.ret = "Ok",
                           !.engine = "alive", !.thread = "spawned"]
          /\ UNCHANGED <<sounds, channels, sample_rate, status, tunes, last,
                         playing, group_volumes, next_id, build, logical>>
     ELSE /\ Configure(ch, rate)
          /\ backend' = [backend EXCEPT !.at_new = "ok", !.ret = "Ok",
                           !.engine = "alive", !.stream = TRUE]
  /\ UNCHANGED <<handles, alloc, conv, lock>>

\* `self.stream.take()` dropped, or forgotten on android: the streams left
\* open behind the event loop's back afterwards.
Taken(b) ==
  IF b.stream /\ b.target = "android" THEN b.leaked + 1 ELSE b.leaked

\* StreamEventLoop::run up to its loop: the first RecreateStream is sent.
ThreadStart ==
  /\ backend.thread = "spawned"
  /\ backend' = [backend EXCEPT
                   !.thread = "waiting",
                   !.queue = Append(backend.queue, "RecreateStream")]
  /\ UNCHANGED <<sounds, channels, sample_rate, status, tunes, last, beside>>

\* The loop receives RecreateStream and create_device returns Err: the error
\* is logged and run returns, which drops the receiver.
RecreateFails ==
  /\ backend.thread = "waiting"
  /\ backend.queue # <<>>
  /\ Head(backend.queue) = "RecreateStream"
  /\ backend.device # "ok"
  /\ backend' = [backend EXCEPT !.thread = "returned", !.queue = <<>>,
                                !.stream = FALSE, !.leaked = Taken(backend)]
  /\ UNCHANGED <<sounds, channels, sample_rate, status, tunes, last, beside>>

\* The loop receives RecreateStream and create_device finds a config: the old
\* stream is dropped, the Mixer is set to the config and a stream is opened
\* with a fresh clone of the error callback; a panic in set_config ends the
\* thread.
RecreateStream(ch, rate) ==
  /\ backend.thread = "waiting"
  /\ backend.queue # <<>>
  /\ Head(backend.queue) = "RecreateStream"
  /\ backend.device = "ok"
  /\ Configure(ch, rate)
  /\ backend' = IF status' = "panicked"
                THEN [backend EXCEPT !.thread = "panicked", !.queue = <<>>,
                                     !.stream = FALSE,
                                     !.leaked = Taken(backend)]
                ELSE [backend EXCEPT !.queue = Tail(backend.queue),
                                     !.stream = TRUE, !.handled = FALSE,
                                     !.sent = 0, !.leaked = Taken(backend)]
  /\ UNCHANGED <<handles, alloc, conv, lock>>

\* The loop receives Drop: run returns, the stream and the receiver go.
ReceiveDrop ==
  /\ backend.thread = "waiting"
  /\ backend.queue # <<>>
  /\ Head(backend.queue) = "Drop"
  /\ backend' = [backend EXCEPT !.thread = "returned", !.queue = <<>>,
                                !.stream = FALSE, !.leaked = Taken(backend)]
  /\ UNCHANGED <<sounds, channels, sample_rate, status, tunes, last, beside>>

\* A callback that sends RecreateStream for every error it is told of.
AlwaysSends(handled) == TRUE

\* `if !handled { .. send .. }`: whether the callback sends RecreateStream.
Sends(handled) == ~handled

\* The stream reports an error, the device being what it has become: the
\* callback sends RecreateStream the first time it is called.
StreamError(device) ==
  /\ backend.target # "wasm32"
  /\ backend.stream
  /\ backend.errors < MaxErrors
  /\ backend' = [backend EXCEPT
                   !.errors = backend.errors + 1,
                   !.device = device,
                   !.handled = TRUE,
                   !.sent = IF Sends(backend.handled) THEN backend.sent + 1
                            ELSE backend.sent,
                   !.queue = IF Sends(backend.handled)
                             THEN Append(backend.queue, "RecreateStream")
                             ELSE backend.queue]
  /\ UNCHANGED <<sounds, channels, sample_rate, status, tunes, last, beside>>

\* Drop for Backend, `self.sender.send(StreamEvent::Drop).unwrap()`: send
\* returns Err once the receiver is gone, and unwrap panics. The wasm32
\* Backend has no Drop: its stream is dropped.
DropSend ==
  /\ backend.engine = "alive"
  /\ backend' =
       IF backend.target = "wasm32"
       THEN [backend EXCEPT !.engine = "dropped", !.stream = FALSE]
       ELSE IF backend.thread \in {"returned", "panicked"}
       THEN [backend EXCEPT !.engine = "drop_panicked"]
       ELSE [backend EXCEPT !.engine = "joining",
                            !.queue = Append(backend.queue, "Drop")]
  /\ UNCHANGED <<sounds, channels, sample_rate, status, tunes, last, beside>>

\* Drop for Backend, `self.join.take().unwrap().join().unwrap()`: join
\* returns when the thread has ended, Err if it panicked.
DropJoin ==
  /\ backend.engine = "joining"
  /\ backend.thread \in {"returned", "panicked"}
  /\ backend' = [backend EXCEPT
                   !.engine = IF backend.thread = "panicked"
                              THEN "drop_panicked" ELSE "dropped"]
  /\ UNCHANGED <<sounds, channels, sample_rate, status, tunes, last, beside>>

BackendNext ==
  \/ WithGroupsNoDevice
  \/ \E ch \in {1, 2}, rate \in DeviceRates : WithGroups(ch, rate)
  \/ ThreadStart
  \/ RecreateFails
  \/ \E ch \in {1, 2}, rate \in DeviceRates : RecreateStream(ch, rate)
  \/ ReceiveDrop
  \/ \E device \in Devices : StreamError(device)
  \/ DropSend
  \/ DropJoin
  \/ \E g \in AddGroups, src \in EngineSources :
       backend.engine = "alive" /\ NewSound(g, src)

SpecBackend == BackendInit /\ [][BackendNext]_vars

\* --------------------------------------------------------------- mixing
\* The Mixer with the samples it returns kept in `last`. The sources hold one
\* frame: a small negative sample, which a volume of 0.5 scales to a
\* fraction, or a large one, which saturates when doubled or added twice.
MixSamples == {<<-5>>, <<20000>>}

MixNext ==
  \/ \E g \in AddGroups, smp \in MixSamples : AddSound(g, smp)
  \/ \E id \in SoundIds : Play(id)
  \/ \E id \in SoundIds : Stop(id)
  \/ \E id \in SoundIds, b \in BOOLEAN : SetLoop(id, b)
  \/ \E id \in SoundIds, v \in Volumes : SetVolume(id, v)
  \/ \E g \in Groups, v \in GroupVolumes : SetGroupVolume(g, v)
  \/ \E id \in SoundIds, b \in BOOLEAN : MarkToRemove(id, b)
  \/ \E frames \in 0..MaxBuf : WriteSamples(Zeros(frames * channels), TRUE)

SpecMix == Init /\ [][MixNext]_vars

\* ---------------------------------------------------------------- order
\* A Mixer to which three sounds were added, each of one frame: a large
\* positive sample, a large negative one or a small one. The order of the
\* play calls decides the order of the entries in the playing partition.
MaxOrder == 3

OrderSamples == {<<20000>>, <<-20000>>, <<-5>>}

OrderInit ==
  /\ sounds \in {[k \in 1..MaxOrder |->
                    SoundInner(k - 1, "A", BufferSource(1, 1, smp[k]))] :
                 smp \in [1..MaxOrder -> OrderSamples]}
  /\ playing = 0
  /\ channels = 1
  /\ sample_rate = 1
  /\ group_volumes = <<>>
  /\ next_id = MaxOrder
  /\ status = "ok"
  /\ build \in {"debug", "release"}
  /\ tunes = 0
  /\ logical = {}
  /\ last = Last("new", 0)
  /\ handles = {}
  /\ alloc = NoAlloc
  /\ lock = NoLock
  /\ backend = NoBackend
  /\ conv = NoConv

OrderNext ==
  \/ \E id \in 0..(MaxOrder - 1) : Play(id)
  \/ \E id \in 0..(MaxOrder - 1) : Pause(id)
  \/ \E frames \in 1..MaxBuf : WriteSamples(Zeros(frames * channels), TRUE)

SpecOrder == OrderInit /\ [][OrderNext]_vars

\* ----------------------------------------------------------------- fill
\* The Mixer used as a SoundSource by a caller that hands it buffers holding
\* anything: zeros, as the stream callback does, or a sample left there.
Leftover == 7

Fills == UNION {[1..n -> {0, Leftover}] : n \in 1..MaxBuf}

FillNext ==
  \/ \E g \in AddGroups, smp \in MixSamples : AddSound(g, smp)
  \/ \E id \in SoundIds : Play(id)
  \/ \E id \in SoundIds : Pause(id)
  \/ \E b \in Fills : WriteSamples(b, TRUE)

SpecFill == Init /\ [][FillNext]_vars

\* --------------------------------------------------------------- rewrap
\* A Mixer whose sounds are long enough to be mid-way when the device's
\* format changes: MaxLong frames, 4, 8, ...
MaxLong == 4

LongSamples == {[k \in 1..MaxLong |-> 4 * k]}

RewrapNext ==
  \/ \E g \in AddGroups, smp \in LongSamples : AddSound(g, smp)
  \/ \E id \in SoundIds : Play(id)
  \/ \E frames \in 1..MaxBuf : WriteSamples(Zeros(frames * channels), FALSE)
  \/ \E ch \in {1, 2}, rate \in {1, 2} : SetConfig(ch, rate)

SpecRewrap == Init /\ [][RewrapNext]_vars

\* ----------------------------------------------------------------- leak
\* The engine with the handle operations that move an entry between the
\* partitions, the drop of the handle and the stream's callback, which the
\* device keeps calling with a non-empty buffer. The control thread's calls
\* lock, act and unlock in one step; the callback takes the lock in one step
\* and runs in the next.
\* The stream's callback once it has the lock: one write_samples on a zeroed
\* buffer, then the guard is dropped; a panic poisons the lock, and a call
\* that never returns keeps it.
CallbackRun(frames) ==
  /\ lock.audio = "locked"
  /\ Fill(Zeros(frames * channels), FALSE)
  /\ lock' = IF status' = "ok"
             THEN [lock EXCEPT !.holder = "free", !.audio = "idle"]
             ELSE IF status' = "panicked"
             THEN [lock EXCEPT !.holder = "poisoned", !.audio = "dead"]
             ELSE lock
  /\ UNCHANGED <<handles, alloc, conv, backend>>

LeakNext ==
  \/ \E g \in AddGroups, src \in EngineSources :
       lock.holder = "free" /\ NewSound(g, src)
  \/ \E id \in SoundIds : lock.holder = "free" /\ SoundPlay(id)
  \/ \E id \in SoundIds : lock.holder = "free" /\ SoundPause(id)
  \/ \E id \in SoundIds : lock.holder = "free" /\ SoundDrop(id)
  \/ LockMixer("audio")
  \/ \E frames \in 1..MaxBuf : CallbackRun(frames)

\* The device keeps asking for buffers: the callback takes the lock whenever
\* it stays free, and once it has it, it runs (its write_samples is not
\* waiting for anything).
SpecLeak ==
  /\ EngineInit
  /\ [][LeakNext]_vars
  /\ WF_vars(LockMixer("audio"))
  /\ []<>(~(lock.audio = "locked" /\ status = "ok"))

\* ------------------------------------------------------------------ ids
\* Two Mixers, each behind its own exclusive borrow, whose add_sound calls
\* run on two threads: SoundInner::new takes the id from the process-wide
\* counter, then the entry is pushed and the id returned.
MaxIds == 4

AllocIds == 0..(MaxIds - 1)

\* next_id() called without its fetch_add taking effect on the counter.
StaleNextId(m) ==
  /\ status = "ok"
  /\ m \notin DOMAIN alloc.fetched
  /\ next_id < MaxIds
  /\ alloc' = [alloc EXCEPT !.fetched =
                 [x \in DOMAIN alloc.fetched \cup {m} |->
                    IF x = m THEN next_id ELSE alloc.fetched[x]]]
  /\ UNCHANGED <<sounds, playing, channels, sample_rate, group_volumes, next_id,
                 status, build, tunes, logical, last, handles, conv, lock,
                 backend>>

\* next_id(): GLOBAL_COUNT.fetch_add(1, Relaxed) is one atomic read-modify-
\* write, whatever its ordering; m is the Mixer whose add_sound runs it.
NextId(m) ==
  /\ status = "ok"
  /\ m \notin DOMAIN alloc.fetched
  /\ next_id < MaxIds
  /\ alloc' = [alloc EXCEPT !.fetched =
                 [x \in DOMAIN alloc.fetched \cup {m} |->
                    IF x = m THEN next_id ELSE alloc.fetched[x]]]
  /\ next_id' = next_id + 1
  /\ UNCHANGED <<sounds, playing, channels, sample_rate, group_volumes, status,
                 build, tunes, logical, last, handles, conv, lock,
                 backend>>

\* The rest of add_sound on Mixer m: push the entry, return its id.
PushSound(m, group, samples) ==
  /\ status = "ok"
  /\ m \in DOMAIN alloc.fetched
  /\ \E e \in {SoundInner(alloc.fetched[m], group, BufferSource(1, 1, samples))} :
       /\ sounds' = IF m = 1 THEN Append(sounds, e) ELSE sounds
       /\ alloc' = [other |-> IF m = 2 THEN Append(alloc.other, e) ELSE alloc.other,
                    fetched |-> [x \in DOMAIN alloc.fetched \ {m} |-> alloc.fetched[x]],
                    returned |-> Append(alloc.returned, e.id)]
       /\ last' = Last("add_sound", e.id)
  /\ UNCHANGED <<playing, channels, sample_rate, group_volumes, next_id, status,
                 build, tunes, logical, handles, conv, lock,
                 backend>>

\* Mixer::stop on this Mixer, between two of its add_sound calls.
StopHere(id) == 1 \notin DOMAIN alloc.fetched /\ Stop(id)

\* Mixer::stop on the second Mixer, whose entries are all paused and marked
\* to be removed: the entry is swap_removed.
StopOther(id) ==
  LET p == FindLast(alloc.other, id, 0, Len(alloc.other))
  IN /\ status = "ok"
     /\ 2 \notin DOMAIN alloc.fetched
     /\ p # 0
     /\ alloc' = [alloc EXCEPT !.other = SwapRemove(alloc.other, p)]
     /\ UNCHANGED <<sounds, playing, channels, sample_rate, group_volumes, next_id,
                    status, build, tunes, logical, last, handles, conv, lock,
                 backend>>

IdsNext ==
  \/ \E m \in {1, 2} : NextId(m)
  \/ \E m \in {1, 2}, g \in AddGroups, smp \in SrcSamples : PushSound(m, g, smp)
  \/ \E id \in AllocIds : StopHere(id)
  \/ \E id \in AllocIds : StopOther(id)

SpecIds == Init /\ [][IdsNext]_vars

\* -------------------------------------------------- SampleRateConverter
\* A SampleRateConverter built over a buffer of up to MaxRateLen frames, of
\* one or two channels, and asked for samples in requests of whole frames.
MaxRateLen == 7

MaxRequest == 3

Rates == {1, 2, 3}

\* The sample of channel c in frame f: negative at first, not linear in f.
RateSample(f, c) == 7 * f * f - 20 + 3 * c

RateSources ==
  {BufferSource(r, ch, [k \in 1..(n * ch) |-> RateSample((k - 1) \div ch, (k - 1) % ch)]) :
     r \in Rates, ch \in {1, 2}, n \in 0..MaxRateLen}

\* c is what SampleRateConverter::new returned.
NewConv(c) == [d |-> c.d, out |-> <<>>, fault |-> c.fault]

RateInit ==
  /\ sounds = <<>>
  /\ playing = 0
  /\ channels = 1
  /\ sample_rate = 1
  /\ group_volumes = <<>>
  /\ next_id = 0
  /\ status = "ok"
  /\ build \in {"debug", "release"}
  /\ tunes = 0
  /\ logical = {}
  /\ last = Last("new", 0)
  /\ handles = {}
  /\ alloc = NoAlloc
  /\ lock = NoLock
  /\ backend = NoBackend
  /\ conv \in {NewConv(SampleRateConverter(src, out)) : src \in RateSources, out \in Rates}

\* SampleRateConverter::write_samples on a buffer of `frames` frames; the
\* samples it reports written are appended to conv.out.
ConvWrite(frames) ==
  /\ ~conv.fault
  /\ \E w \in {SrcWrite(conv.d, Zeros(frames * SrcChannels(conv.d)))} :
       /\ conv' = [d |-> w.d,
                   out |-> IF w.fault THEN conv.out
                           ELSE conv.out \o SubSeq(w.b, 1, Min(w.n, Len(w.b))),
                   fault |-> w.fault]
       /\ last' = [Last("write_samples", 0) EXCEPT
                     !.n = frames * SrcChannels(conv.d),
                     !.ret = IF w.fault THEN -1 ELSE w.n]
  /\ UNCHANGED <<sounds, playing, channels, sample_rate, group_volumes, next_id,
                 status, build, tunes, logical, handles, alloc, lock,
                 backend>>

\* SampleRateConverter::reset; the record of the samples starts again.
ConvReset ==
  /\ ~conv.fault
  /\ \E r \in {SrcReset(conv.d)} :
       conv' = [d |-> r.d, out |-> <<>>, fault |-> r.fault]
  /\ last' = Last("reset", 0)
  /\ UNCHANGED <<sounds, playing, channels, sample_rate, group_volumes, next_id,
                 status, build, tunes, logical, handles, alloc, lock,
                 backend>>

RateNext ==
  \/ \E frames \in 1..MaxRequest : ConvWrite(frames)
  \/ ConvReset

SpecRate == RateInit /\ [][RateNext]_vars

\* ----------------------------------------------------- ChannelConverter
\* A ChannelConverter built over a buffer of up to MaxChanLen frames of one
\* to three channels, converting to one to three channels, and asked for
\* samples in requests of whole output frames.
MaxChanLen == 4

ChannelSources ==
  {BufferSource(1, ch, [k \in 1..(n * ch) |-> RateSample((k - 1) \div ch, (k - 1) % ch)]) :
     ch \in ChannelCounts, n \in 0..MaxChanLen}

ChannelInit ==
  /\ sounds = <<>>
  /\ playing = 0
  /\ channels = 1
  /\ sample_rate = 1
  /\ group_volumes = <<>>
  /\ next_id = 0
  /\ status = "ok"
  /\ build \in {"debug", "release"}
  /\ tunes = 0
  /\ logical = {}
  /\ last = Last("new", 0)
  /\ handles = {}
  /\ alloc = NoAlloc
  /\ lock = NoLock
  /\ backend = NoBackend
  /\ conv \in {[d |-> ChannelConverter(src, out), out |-> <<>>, fault |-> FALSE] :
                 src \in ChannelSources, out \in ChannelCounts}

\* write_samples and reset reach the converter through the SoundSource
\* trait, as they do for a SampleRateConverter.
ChannelNext ==
  \/ \E frames \in 1..MaxRequest : ConvWrite(frames)
  \/ ConvReset

SpecChannel == ChannelInit /\ [][ChannelNext]_vars

\* ----------------------------------------------------------- create_device
\* The most configuration ranges a device answers with.
MaxConfigs == 2

HardwareRates == {44100, 48000, 96000}
HardwareChannels == {1, 2, 4}
Formats == {"I16", "F32"}

\* cpal::SupportedStreamConfigRange: what supported_output_configs yields.
ConfigRanges ==
  {x \in [min : HardwareRates, max : HardwareRates,
           channels : HardwareChannels, format : Formats] : x.min <= x.max}

\* The device's answers: up to MaxConfigs ranges, in the device's order.
RangeLists == UNION {[1..n -> ConfigRanges] : n \in 0..MaxConfigs}

\* The closure given to `.map`: 48000 when the range holds it, else 44100
\* when the range holds it, else the range's highest rate.
WithRate(x) ==
  [rate |-> IF x.min <= 48000 /\ 48000 <= x.max THEN 48000
            ELSE IF x.min <= 44100 /\ 44100 <= x.max THEN 44100
            ELSE x.max,
   channels |-> x.channels, format |-> x.format]

\* bool as it is ordered: false < true.
Bit(b) == IF b THEN 1 ELSE 0

\* The closure `key` of the sort.
key(x) ==
  <<Bit(x.rate = 48000), Bit(x.rate = 441000), Bit(x.channels = 2),
    Bit(x.channels = 1), Bit(x.format = "I16"), x.rate>>

\* Ord of tuples: the first differing element decides.
TupleLess(a, b) ==
  \E i \in 1..Len(a) : a[i] < b[i] /\ \A j \in 1..(i - 1) : a[j] = b[j]

\* sort_unstable_by(key(a).cmp(&key(b))): the vector's elements in ascending
\* order of key, elements of equal key in any order.
SortUnstable(v) ==
  {[i \in 1..Len(v) |-> v[p[i]]] :
     p \in {q \in [1..Len(v) -> 1..Len(v)] :
              /\ \A i, j \in 1..Len(v) : i # j => q[i] # q[j]
              /\ \A i, j \in 1..Len(v) :
                   i < j => ~TupleLess(key(v[q[j]]), key(v[q[i]]))}}

\* with_groups has built the Mixer and the device has answered
\* supported_output_configs.
DeviceInit ==
  /\ sounds = <<>>
  /\ playing = 0
  /\ channels = 2
  /\ sample_rate = 48000
  /\ group_volumes = <<>>
  /\ next_id = 0
  /\ status = "ok"
  /\ build \in {"debug", "release"}
  /\ tunes = 0
  /\ logical = {}
  /\ last = Last("new", 0)
  /\ handles = {}
  /\ alloc = NoAlloc
  /\ lock = NoLock
  /\ conv = NoConv
  /\ backend \in {[NoBackend EXCEPT !.ranges = r, !.created = "queried"] :
                    r \in RangeLists}

\* create_device from the map to the sort.
CreateDeviceSort ==
  /\ backend.created = "queried"
  /\ \E v \in SortUnstable([i \in 1..Len(backend.ranges) |->
                              WithRate(backend.ranges[i])]) :
       backend' = [backend EXCEPT !.configs = v, !.created = "sorted"]
  /\ UNCHANGED <<sounds, channels, sample_rate, status, tunes, last, beside>>

\* One turn of create_device's loop with a config left: the last of the
\* vector is popped, the Mixer (which holds no sound yet) is set to it and
\* the stream is built; Err goes round the loop, Ok leaves it.
CreateDeviceTry(built) ==
  /\ backend.created = "sorted"
  /\ backend.configs # <<>>
  /\ status = "ok"
  /\ \E c \in {backend.configs[Len(backend.configs)]} :
       /\ channels' = c.channels
       /\ sample_rate' = c.rate
       /\ backend' = [backend EXCEPT
                        !.configs = SubSeq(backend.configs, 1,
                                           Len(backend.configs) - 1),
                        !.tried = Append(backend.tried, c),
                        !.stream = built,
                        !.created = IF built THEN "Ok" ELSE "sorted"]
  /\ last' = Last("set_config", 0)
  /\ UNCHANGED <<sounds, status, tunes, beside>>

\* One turn of the loop with no config left: Err("no supported config").
CreateDeviceNone ==
  /\ backend.created = "sorted"
  /\ backend.configs = <<>>
  /\ backend' = [backend EXCEPT !.created = "Err"]
  /\ UNCHANGED <<sounds, channels, sample_rate, status, tunes, last, beside>>

DeviceNext ==
  \/ CreateDeviceSort
  \/ \E built \in BOOLEAN : CreateDeviceTry(built)
  \/ CreateDeviceNone

SpecDevice == DeviceInit /\ [][DeviceNext]_vars

\* -------------------------------------------------------------- threads
\* All the threads that lock the Mixer: the control thread in
\* new_sound_with_group or in a handle's call or destructor (one lock, one
\* call, unlock: one step), the backend thread in create_device and the
\* audio thread in the stream's callback.
Threads == {"app", "backend", "audio"}

ThreadsNext ==
  \/ \E t \in Threads : LockMixer(t)
  \/ \E g \in AddGroups, src \in EngineSources : NewSoundWrap(g, src)
  \/ NewSoundAdd
  \/ \E ch \in {1, 2}, rate \in DeviceRates : DeviceConfig(ch, rate)
  \/ \E frames \in 1..MaxBuf : CallbackRun(frames)
  \/ \E id \in SoundIds : lock.holder = "free" /\ SoundPlay(id)
  \/ \E id \in SoundIds : lock.holder = "free" /\ SoundSetLoop(id, TRUE)
  \/ \E id \in SoundIds : lock.holder = "free" /\ SoundDrop(id)

SpecThreads == EngineInit /\ [][ThreadsNext]_vars

\* -------------------------------------------------------------- contracts
\* The position of the entry with the given id, 0 when it is absent.
PosOf(s, id) == FindLast(s, id, 0, Len(s))

\* The ids of the entries in the playing partition, code indices [0, n).
PlayingIds(s, n) == {s[k].id : k \in 1..Min(n, Len(s))}

\* The operations addressed to one id.
IdOps == {"play", "pause", "stop", "reset", "set_volume", "set_loop",
          "mark_to_remove"}

\* C1: after any finite sequence of Mixer operations the partition index
\* satisfies 0 <= playing <= number of entries.
C1_PlayingWithinEntries == 0 <= playing /\ playing <= Len(sounds)

\* C2: an entry sits at an index below `playing` if and only if it is
\* logically playing (play was called on it and it was not paused, stopped
\* or ended since), and no operation addressed to one id changes whether a
\* different entry is playing or paused.
C2_PartitionIsLogical ==
  /\ [](\A k \in 1..Len(sounds) : (k <= playing) <=> (sounds[k].id \in logical))
  /\ [][\A k \in 1..Len(sounds) :
          (/\ last'.op \in IdOps
           /\ sounds[k].id # last'.id
           /\ sounds[k].id \in Ids(sounds'))
          => ((k <= playing) <=> (PosOf(sounds', sounds[k].id) <= playing'))]_vars

\* C3: stop(id) on a playing entry whose remove_on_end flag is false resets
\* its source and moves it to the paused partition: the playing count goes
\* down by one and the entry is outside the partition write_samples mixes.
C3_StopPausesKeptEntry ==
  [][\A k \in 1..Len(sounds) :
       (/\ last'.op = "stop"
        /\ last'.id = sounds[k].id
        /\ k <= playing
        /\ ~sounds[k].drop)
       => /\ playing' = playing - 1
          /\ sounds[k].id \notin PlayingIds(sounds', playing')
          /\ sounds[k].id \in Ids(sounds')
          /\ sounds'[PosOf(sounds', sounds[k].id)].data = SrcReset(sounds[k].data).d]_vars

\* C4: every call of write_samples completes without indexing outside the
\* entries vector and returns exactly the length of the buffer.
C4_WriteSamplesCompletes ==
  last.op = "write_samples" => (status = "ok" /\ last.ret = last.n)

\* C5: a playing entry whose remove_on_end flag is true is removed when its
\* source reaches its end during write_samples, looping or not.
C5_RemovalDominatesLooping ==
  [][\A k \in 1..Len(sounds) :
       (/\ last'.op = "write_samples"
        /\ status' = "ok"
        /\ k <= playing
        /\ sounds[k].drop
        /\ sounds[k].id \in Range(last'.eos))
       => sounds[k].id \notin Ids(sounds')]_vars

\* C6: set_loop(id, looping) on an existing entry stores the loop flag and
\* sets the entry's remove_on_end flag to false.
C6_SetLoopClearsRemove ==
  [][\A id \in 0..(MaxSounds - 1), b \in BOOLEAN :
       (SetLoop(id, b) /\ id \in Ids(sounds))
       => /\ sounds'[PosOf(sounds', id)].looping = b
          /\ ~sounds'[PosOf(sounds', id)].drop]_vars

\* C7: add_sound leaves the playing count unchanged and the new entry
\* starts in the paused partition, outside what write_samples mixes.
C7_AddSoundStartsPaused ==
  [][last'.op = "add_sound"
       => /\ playing' = playing
          /\ last'.id \in Ids(sounds')
          /\ last'.id \notin PlayingIds(sounds', playing')]_vars

\* C8: stop(id) on an entry whose remove_on_end flag is true removes exactly
\* that entry: one entry fewer, one playing entry fewer iff the removed
\* entry was playing, and every other entry keeps its side of the
\* partition and all of its fields.
C8_StopRemovesExactlyThat ==
  [][\A k \in 1..Len(sounds) :
       (/\ last'.op = "stop"
        /\ last'.id = sounds[k].id
        /\ sounds[k].drop)
       => /\ Len(sounds') = Len(sounds) - 1
          /\ sounds[k].id \notin Ids(sounds')
          /\ playing' = IF k <= playing THEN playing - 1 ELSE playing
          /\ \A j \in 1..Len(sounds) :
               j # k =>
                 /\ sounds[j].id \in Ids(sounds')
                 /\ sounds'[PosOf(sounds', sounds[j].id)] = sounds[j]
                 /\ (j <= playing) <=> (PosOf(sounds', sounds[j].id) <= playing')]_vars

\* C9: play, pause, stop, reset, set_volume, set_loop and mark_to_remove
\* with an id that is not in the Mixer leave the whole Mixer unchanged.
C9_AbsentIdChangesNothing ==
  [][(last'.op \in IdOps /\ last'.id \notin Ids(sounds))
       => UNCHANGED <<sounds, playing, channels, sample_rate, group_volumes,
                      next_id, status>>]_vars

\* C10: when write_samples returns, every playing non-looping entry whose
\* source came back short is absent if its remove_on_end flag was true and
\* paused otherwise; the playing count dropped by one per ended entry, and
\* if every playing entry ended with the flag true the entry count dropped
\* by that many.
C10_EndedEntriesLeave ==
  [][(last'.op = "write_samples" /\ status' = "ok")
       => /\ \A k \in 1..Len(sounds) :
               (/\ k <= playing
                /\ ~sounds[k].looping
                /\ sounds[k].id \in Range(last'.ended))
               => IF sounds[k].drop
                  THEN sounds[k].id \notin Ids(sounds')
                  ELSE PosOf(sounds', sounds[k].id) > playing'
          /\ playing' = playing - Cardinality(Range(last'.ended))
          /\ (\A k \in 1..Min(playing, Len(sounds)) :
                sounds[k].drop /\ sounds[k].id \in Range(last'.ended))
             => Len(sounds') = Len(sounds) - Min(playing, Len(sounds))]_vars

\* A source is at its beginning: a reset would change nothing.
IsReset(d) == SrcReset(d).d = d

\* C11: when write_samples returns, a playing non-looping entry with
\* remove_on_end false whose source ended is still in the Mixer, is paused
\* and has its source back at the beginning, so that the next play(id)
\* replays it from its first sample.
C11_EndedEntryIsRewound ==
  [][\A k \in 1..Len(sounds) :
       (/\ last'.op = "write_samples"
        /\ status' = "ok"
        /\ k <= playing
        /\ ~sounds[k].looping
        /\ ~sounds[k].drop
        /\ sounds[k].id \in Range(last'.ended))
       => /\ sounds[k].id \in Ids(sounds')
          /\ PosOf(sounds', sounds[k].id) > playing'
          /\ IsReset(sounds'[PosOf(sounds', sounds[k].id)].data)]_vars

\* C12: pause(id) on a playing entry moves it to the paused partition and
\* leaves the entry, its source included, as it was; play(id) on a paused
\* entry moves it back with its source where it was; pause on a paused
\* entry and play on a playing entry change nothing.
C12_PauseKeepsPosition ==
  [][\A k \in 1..Len(sounds) :
       /\ (last'.op = "pause" /\ last'.id = sounds[k].id /\ k <= playing)
          => /\ status' = "ok"
             /\ sounds[k].id \in Ids(sounds')
             /\ PosOf(sounds', sounds[k].id) > playing'
             /\ sounds'[PosOf(sounds', sounds[k].id)] = sounds[k]
       /\ (last'.op = "play" /\ last'.id = sounds[k].id /\ k > playing)
          => /\ PosOf(sounds', sounds[k].id) <= playing'
             /\ sounds'[PosOf(sounds', sounds[k].id)] = sounds[k]
       /\ (/\ last'.id = sounds[k].id
           /\ \/ last'.op = "pause" /\ k > playing
              \/ last'.op = "play" /\ k <= playing)
          => UNCHANGED <<sounds, playing, status>>]_vars

\* C13: every Sound handle that was created and not dropped has exactly one
\* entry in the Mixer, whatever its methods and the audio callback did.
C13_HandleHasOneEntry ==
  \A id \in handles : Cardinality({k \in 1..Len(sounds) : sounds[k].id = id}) = 1

\* stop() was just called through a live handle and its entry is still there.
C13_Witness ==
  \E id \in handles :
    /\ id \in Ids(sounds)
    /\ last.op = "stop"
    /\ last.id = id

\* The entry of id is playing, does not loop, and its handle was dropped.
DroppedPlaying(id) ==
  /\ id \notin handles
  /\ \E k \in 1..Min(playing, Len(sounds)) : sounds[k].id = id /\ ~sounds[k].looping

\* C14: dropping a handle changes nothing of its entry but the removal flag
\* and leaves it in its partition; a playing non-looping entry whose handle
\* was dropped is pulled by every non-empty callback, is removed in the
\* callback in which its source ends and, as long as the callbacks keep
\* returning, is eventually removed.
C14_DroppedSoundPlaysOut ==
  /\ [][\A k \in 1..Len(sounds) :
          /\ (last'.op = "drop" /\ last'.id = sounds[k].id)
             => /\ sounds' = [sounds EXCEPT ![k].drop = TRUE]
                /\ playing' = playing
          /\ (/\ last'.op = "write_samples"
              /\ last'.n > 0
              /\ status' = "ok"
              /\ DroppedPlaying(sounds[k].id))
             => /\ sounds[k].id \in Range(last'.pulled)
                /\ (sounds[k].id \in Range(last'.ended))
                     = (sounds[k].id \notin Ids(sounds'))]_vars
  /\ \A id \in SoundIds :
       DroppedPlaying(id) ~> (id \notin Ids(sounds) \/ status # "ok")

\* A callback in which the source of a dropped handle's entry ended has
\* removed the entry.
C14_Witness ==
  /\ last.op = "write_samples"
  /\ status = "ok"
  /\ \E id \in Range(last.ended) : id \notin handles /\ id \notin Ids(sounds)

\* The saturating accumulation over the entries at positions k..n of s, each
\* pulled once from where its source stands, scaled by its gain.
RECURSIVE Accumulate(_, _, _, _, _)

\* p is what the pull of the entry at position k returned.
AccumulatePut(s, n, k, buffer, gv, p) ==
  Accumulate(s, n, k + 1, MixInto(buffer, p.buf, p.len, Gain(s[k], gv)), gv)

Accumulate(s, n, k, buffer, gv) ==
  IF k > n THEN buffer
  ELSE AccumulatePut(s, n, k, buffer, gv,
                     PullLoop(s[k].data, Zeros(Len(buffer)), 0, s[k].looping, FALSE))

\* C15: the samples a write_samples call returns in a zeroed buffer are the
\* saturating accumulation, over the entries playing when the call started,
\* of the samples each entry's source yields scaled by volume times group
\* volume and truncated toward zero, with nothing added past an entry's end.
C15_OutputIsSaturatingSum ==
  [][(last'.op = "write_samples" /\ status' = "ok")
     => last'.out = Accumulate(sounds, Min(playing, Len(sounds)), 1,
                               Zeros(last'.n), group_volumes)]_vars

\* The ids of the entries of s are pairwise different.
DistinctIds(s) == \A i, j \in 1..Len(s) : i # j => s[i].id # s[j].id

\* C16: the ids add_sound returned, on either Mixer and however the calls of
\* the two threads interleave, are pairwise different, and no Mixer holds
\* two entries with the same id.
C16_IdsNeverReused ==
  /\ \A i, j \in 1..Len(alloc.returned) :
       i # j => alloc.returned[i] # alloc.returned[j]
  /\ DistinctIds(sounds)
  /\ DistinctIds(alloc.other)
  /\ Ids(sounds) \cap Ids(alloc.other) = {}

\* Both Mixers hold an entry, an entry was removed since, and an id was
\* returned after one that was taken from the counter later.
C16_Witness ==
  /\ sounds # <<>>
  /\ alloc.other # <<>>
  /\ Len(sounds) + Len(alloc.other) < Len(alloc.returned)
  /\ \E i, j \in 1..Len(alloc.returned) :
       i < j /\ alloc.returned[i] > alloc.returned[j]

\* The converter of conv was built, over a buffer, and no call on it panicked.
ConvRuns == conv.d.kind = "rate" /\ ~conv.fault

\* C17: a SampleRateConverter whose output rate is its inner source's rate
\* returns, over the write_samples calls made since it was built or reset,
\* the inner source's samples from the first one on.
C17_EqualRatesPassThrough ==
  (ConvRuns /\ conv.d.output_sample_rate = SrcRate(conv.d.inner))
    => conv.out = SubSeq(conv.d.inner.buffer, 1, Len(conv.out))

\* The converter of conv changes the rate, and the last fill of its
\* in_buffer was a full one: its source had not ended by then.
ConvInCycle ==
  /\ ConvRuns
  /\ conv.d.output_sample_rate # SrcRate(conv.d.inner)
  /\ conv.d.len = Len(conv.d.in_buffer) - SrcChannels(conv.d.inner)

\* C18: while the source has not ended, the samples returned are whole
\* cycles of out_len samples plus the cursor into the current one, and the
\* inner source was pulled the look-ahead frame plus one in_len per cycle
\* begun: cycle for cycle, out_rate/gcd frames out for in_rate/gcd frames in.
C18_CyclesKeepRatio ==
  ConvInCycle =>
    LET ch == SrcChannels(conv.d.inner)
        inLen == Len(conv.d.in_buffer) - ch
        done == Len(conv.out) - conv.d.iter
    IN /\ conv.d.iter <= conv.d.out_len
       /\ done >= 0
       /\ done % conv.d.out_len = 0
       /\ conv.d.inner.i = ch + inLen * ((done \div conv.d.out_len) + 1)
       /\ inLen * Gcd(SrcRate(conv.d.inner), conv.d.output_sample_rate)
            = SrcRate(conv.d.inner) * ch
       /\ conv.d.out_len * Gcd(SrcRate(conv.d.inner), conv.d.output_sample_rate)
            = conv.d.output_sample_rate * ch

\* Two cycles were completed and a third one begun after a full refill, by
\* a converter to a lower rate.
C18_Witness ==
  /\ ConvInCycle
  /\ SrcRate(conv.d.inner) > conv.d.output_sample_rate
  /\ Len(conv.out) > 2 * conv.d.out_len
  /\ conv.d.iter > 0

\* More frames than any source of the model converts to.
MaxWhole == 3 * MaxRateLen + 3

\* What the converter of conv returns when, newly built over its source, it
\* is asked for everything in one request: [d, b, n, fault].
WholeWrite(c) ==
  IF c.fault THEN [d |-> c.d, b |-> <<>>, n |-> 0, fault |-> TRUE]
  ELSE SrcWrite(c.d, Zeros(MaxWhole * SrcChannels(c.d)))

Whole ==
  WholeWrite(SampleRateConverter([conv.d.inner EXCEPT !.i = 0],
                                 conv.d.output_sample_rate))

\* s is the beginning of t.
IsPrefix(s, t) == Len(s) <= Len(t) /\ s = SubSeq(t, 1, Len(s))

\* C19: whatever the lengths of the requests, the samples returned so far
\* are the beginning of what a single request returns, all of it once a
\* request came back short, and a panic comes only where the single request
\* panics too.
C19_SplitsAgree ==
  (conv.d.kind = "rate")
    => /\ IsPrefix(conv.out, SubSeq(Whole.b, 1, Whole.n))
       /\ conv.fault => Whole.fault
       /\ (~conv.fault /\ last.op = "write_samples" /\ last.ret < last.n)
            => (~Whole.fault /\ Len(conv.out) = Whole.n)

\* A source was converted to its end in several requests.
C19_Witness ==
  /\ ConvRuns
  /\ conv.d.output_sample_rate # SrcRate(conv.d.inner)
  /\ last.op = "write_samples"
  /\ 0 < last.ret
  /\ last.ret < last.n
  /\ Len(conv.out) > last.ret + 2 * SrcChannels(conv.d.inner)

\* The frames of the inner source of conv.
InFrames == Len(conv.d.inner.buffer) \div SrcChannels(conv.d.inner)

\* The sample of channel c in frame f of the inner source.
InSample(f, c) == conv.d.inner.buffer[f * SrcChannels(conv.d.inner) + c + 1]

\* The sample of channel c in output frame k by linear interpolation at
\* position k * in_rate / out_rate; the frame after the position does not
\* count where the position is a whole frame.
Expected(k, c) ==
  LET pos == k * SrcRate(conv.d.inner)
      j == pos \div conv.d.output_sample_rate
      r == pos % conv.d.output_sample_rate
  IN Interpolate(InSample(j, c), IF r = 0 THEN 0 ELSE InSample(j + 1, c),
                 r, conv.d.output_sample_rate)

\* C20: with differing rates, every frame k returned is, channel by channel,
\* the linear interpolation of the two source frames around position
\* k * in_rate / out_rate, truncated toward zero.
C20_FramesAreInterpolated ==
  (ConvRuns /\ conv.d.output_sample_rate # SrcRate(conv.d.inner))
    => \A k \in 0..((Len(conv.out) \div SrcChannels(conv.d.inner)) - 1),
          c \in 0..(SrcChannels(conv.d.inner) - 1) :
         LET pos == k * SrcRate(conv.d.inner)
             j == pos \div conv.d.output_sample_rate
             r == pos % conv.d.output_sample_rate
         IN /\ (IF r = 0 THEN j ELSE j + 1) < InFrames
            /\ conv.out[k * SrcChannels(conv.d.inner) + c + 1] = Expected(k, c)

\* The converter of conv changes the rate of a source of at least one frame.
ConvResamples ==
  /\ ConvRuns
  /\ conv.d.output_sample_rate # SrcRate(conv.d.inner)
  /\ InFrames >= 1

\* The output frames k whose position k * in_rate / out_rate is at most the
\* index of the last frame of the source.
FramesDue ==
  ((InFrames - 1) * conv.d.output_sample_rate) \div SrcRate(conv.d.inner) + 1

\* C21: over a source of at least one frame a converter between differing
\* rates never returns more than the frames whose position lies within the
\* source, and a call that comes back short has returned all of them: every
\* later call then returns 0.
C21_EmitsFramesWithinSource ==
  ConvResamples =>
    /\ Len(conv.out) <= FramesDue * SrcChannels(conv.d.inner)
    /\ (last.op = "write_samples" /\ last.ret < last.n)
         => Len(conv.out) = FramesDue * SrcChannels(conv.d.inner)

\* C22: a converter built or reset over a source that yields no sample has
\* not panicked, holds a valid length that did not wrap below zero, and has
\* returned no sample from write_samples.
C22_EmptySourceEndsAtOnce ==
  (conv.d.kind = "rate" /\ InFrames = 0)
    => /\ ~conv.fault
       /\ ~Wrapped(conv.d.len)
       /\ conv.d.len = 0
       /\ conv.out = <<>>

RECURSIVE SumOf(_, _, _)
\* s[lo] + ... + s[hi]
SumOf(s, lo, hi) == IF lo > hi THEN 0 ELSE s[lo] + SumOf(s, lo + 1, hi)

\* The mean of the channels of frame f of the inner source of conv: the sum
\* divided by the channel count, the quotient cut toward zero.
FrameMean(f) ==
  LET n == SrcChannels(conv.d.inner)
      sum == SumOf(conv.d.inner.buffer, f * n + 1, f * n + n)
  IN IF sum >= 0 THEN sum \div n ELSE -((-sum) \div n)

\* C23: the samples a ChannelConverter returned are, frame by frame, the
\* mean of the source frame's channels in every output channel, or the
\* source's samples when the counts are equal; everything read from the
\* source was returned, out_channels samples for in_channels read, and a
\* call comes back short only when the source is exhausted.
C23_FramesAreChannelMeans ==
  (conv.d.kind = "channel" /\ ~conv.fault)
    => /\ Len(conv.out) * SrcChannels(conv.d.inner) = conv.d.inner.i * conv.d.channels
       /\ \A p \in 1..Len(conv.out) :
            conv.out[p] = IF SrcChannels(conv.d.inner) = conv.d.channels
                          THEN conv.d.inner.buffer[p]
                          ELSE FrameMean((p - 1) \div conv.d.channels)
       /\ (last.op = "write_samples" /\ last.ret < last.n)
            => conv.d.inner.i = Len(conv.d.inner.buffer)
       /\ (last.op = "write_samples" /\ conv.d.inner.i < Len(conv.d.inner.buffer))
            => last.ret = last.n

\* Two channels were averaged into three, the mean of a frame was a negative
\* fraction, and the source ended in a call that came back short.
C23_Witness ==
  /\ conv.d.kind = "channel"
  /\ SrcChannels(conv.d.inner) = 2
  /\ conv.d.channels = 3
  /\ last.op = "write_samples"
  /\ 0 < last.ret
  /\ last.ret < last.n
  /\ \E f \in 0..(InFrames - 1) :
       LET sum == SumOf(conv.d.inner.buffer, 2 * f + 1, 2 * f + 2)
       IN sum < 0 /\ sum % 2 # 0

\* What new_sound_with_group did with a source it accepted: d is the source
\* of the entry it added.
WrappedAsDue(d, source) ==
  LET r == IF d.kind = "channel" THEN d.inner ELSE d
  IN /\ (d.kind = "channel") = (SrcChannels(source) # channels)
     /\ d.kind = "channel" => d.channels = channels
     /\ (r.kind = "rate") = (SrcRate(source) # sample_rate)
     /\ r.kind = "rate" => /\ r.output_sample_rate = sample_rate
                           /\ r.inner.kind = "buffer"
                           /\ r.inner.buffer = source.buffer
     /\ r.kind # "rate" => r = source

\* C24: new_sound_with_group returns Err exactly when the channel counts of
\* source and Mixer differ and neither is 1, and then leaves the Mixer as it
\* was; otherwise it adds exactly one entry, whose source is wrapped in a
\* SampleRateConverter iff the rates differ and, outermost, in a
\* ChannelConverter iff the channel counts differ.
C24_ErrOnlyForIncompatibleChannels ==
  [][\A g \in AddGroups, src \in AnySources :
       (NewSound(g, src) /\ status' = "ok")
         => IF /\ SrcChannels(src) # channels
               /\ channels # 1
               /\ SrcChannels(src) # 1
            THEN /\ last'.ret = -1
                 /\ UNCHANGED <<sounds, playing, channels, sample_rate,
                                group_volumes, next_id, handles>>
            ELSE /\ last'.ret = 0
                 /\ Len(sounds') = Len(sounds) + 1
                 /\ SubSeq(sounds', 1, Len(sounds)) = sounds
                 /\ playing' = playing
                 /\ WrappedAsDue(sounds'[Len(sounds')].data, src)]_vars

\* A source was refused after one that needed both converters was added.
C24_Witness ==
  /\ last.op = "new_sound"
  /\ last.ret = -1
  /\ \E k \in 1..Len(sounds) :
       sounds[k].data.kind = "channel" /\ sounds[k].data.inner.kind = "rate"

\* C25: whenever no thread holds the Mixer's lock, every entry's source
\* declares the Mixer's number of channels and the Mixer's sample rate,
\* however new_sound_with_group and create_device's set_config interleave.
C25_EntriesMatchMixerFormat ==
  lock.holder = "free" =>
    \A k \in 1..Len(sounds) :
      /\ SrcChannels(sounds[k].data) = channels
      /\ SrcRate(sounds[k].data) = sample_rate

\* A source was wrapped for one format, the device changed to another while
\* new_sound_with_group could not run, and both entries were converted.
C25_Witness ==
  /\ lock.holder = "free"
  /\ status = "ok"
  /\ tunes > 0
  /\ Len(sounds) = 2
  /\ sounds[1].data.kind = "rate"
  /\ sounds[1].data.inner.kind = "channel"
  /\ sounds[2].data.kind = "channel"
  /\ sounds[2].data.channels = channels

\* C26: when the host has no output device, the query of its configs fails or
\* no config is usable, AudioEngine::new and with_groups return Err.
C26_ConstructorSurfacesDeviceFailure ==
  (backend.ret # "none" /\ backend.at_new # "ok") => backend.ret = "Err"

\* C27: dropping the AudioEngine completes in every state of the backend: no
\* panic in the drop, and once it is done the thread has returned and the
\* stream is closed.
C27_DropCompletes ==
  /\ backend.engine # "drop_panicked"
  /\ backend.engine = "dropped" =>
       /\ backend.target = "native" => backend.thread = "returned"
       /\ ~backend.stream

\* C28: write_samples terminates whatever the Mixer holds, a playing looping
\* entry whose source yields no sample after a reset included: no call is
\* left spinning with the lock held.
C28_WriteSamplesTerminates == status # "hung"

\* The ids in the playing partition: the entries before position `playing`.
Partition == {sounds[k].id : k \in 1..Min(playing, Len(sounds))}

\* C29: a write_samples call on a non-empty buffer that returns has pulled
\* every entry that was in the playing partition when it started exactly
\* once, and no entry outside it, however many entries ended in the call.
C29_PartitionPulledOnce ==
  [][(/\ status = "ok"
      /\ last'.op = "write_samples"
      /\ last'.n > 0
      /\ status' = "ok")
     => /\ Range(last'.pulled) = Partition
        /\ Len(last'.pulled) = Cardinality(Partition)]_vars

\* The orders of the first n positions.
Orders(n) == {q \in [1..n -> 1..n] : Range(q) = 1..n}

\* s with its first n entries put in the order q.
Reorder(s, n, q) == [k \in 1..Len(s) |-> IF k <= n THEN s[q[k]] ELSE s[k]]

\* C30: the samples a write_samples call leaves in the buffer are those it
\* would leave with the same playing entries in any other order.
C30_OrderIsNotObservable ==
  [][(/\ status = "ok"
      /\ playing <= Len(sounds)
      /\ last'.op = "write_samples"
      /\ status' = "ok")
     => \A q \in Orders(playing) :
          MixOn(Reorder(sounds, playing, q), playing, Zeros(last'.n)).buffer
            = last'.out]_vars

\* C31: the samples a write_samples call leaves in the buffer are those it
\* leaves in a buffer of zeros: what the buffer held before the call does
\* not show, with no entry playing and with some entry playing.
C31_OutputIgnoresBufferContent ==
  [][(/\ status = "ok"
      /\ last'.op = "write_samples"
      /\ status' = "ok")
     => last'.out = MixOn(sounds, playing, Zeros(last'.n)).buffer]_vars

\* What set_config has no business with: the entry without its source.
Settings(snd) ==
  [id |-> snd.id, volume |-> snd.volume, group |-> snd.group,
   looping |-> snd.looping, drop |-> snd.drop]

\* C32: a set_config(ch, rate) that returns leaves the entries' number, ids,
\* order, volumes, groups, looping and remove flags and the count of playing
\* entries as they were, changes nothing at all when ch and rate are the
\* current ones, and leaves the Mixer reporting ch and rate.
C32_SetConfigKeepsEntries ==
  [][\A ch \in {1, 2}, rate \in {1, 2} :
       (last'.op = "set_config" /\ SetConfig(ch, rate) /\ status' = "ok")
       => /\ Len(sounds') = Len(sounds)
          /\ \A k \in 1..Len(sounds) : Settings(sounds'[k]) = Settings(sounds[k])
          /\ playing' = playing
          /\ group_volumes' = group_volumes
          /\ next_id' = next_id
          /\ channels' = ch
          /\ sample_rate' = rate
          /\ (ch = channels /\ rate = sample_rate) => sounds' = sounds]_vars

\* set_config has wrapped two entries, one of them playing, whose volume and
\* flags are not the ones a new entry has.
C32_Witness ==
  /\ last.op = "set_config"
  /\ status = "ok"
  /\ Len(sounds) = 2
  /\ playing = 1
  /\ \A k \in 1..2 : sounds[k].data.kind \in {"channel", "rate"}
  /\ \E k \in 1..2 : sounds[k].looping /\ ~sounds[k].drop

\* The source add_sound was given, under the converters wrapped around it.
RECURSIVE Origin(_)
Origin(d) == IF d.kind \in {"channel", "rate"} THEN Origin(d.inner) ELSE d

\* C33: a set_config that returns does not take any entry's source back: the
\* source under the converters has read at least as far as before the call.
C33_SetConfigKeepsPosition ==
  [][(/\ status = "ok"
      /\ last'.op = "set_config"
      /\ status' = "ok"
      /\ Len(sounds') = Len(sounds))
     => \A k \in 1..Len(sounds) :
          Origin(sounds'[k].data).i >= Origin(sounds[k].data).i]_vars

\* The entry of id is in the paused partition and its handle was dropped.
DroppedPaused(id) ==
  /\ id \notin handles
  /\ \E k \in (playing + 1)..Len(sounds) : sounds[k].id = id

\* C34: an entry whose handle was dropped while it was paused is eventually
\* removed from the Mixer, the callbacks going on.
C34_DroppedPausedIsRemoved ==
  \A id \in SoundIds :
    DroppedPaused(id) ~> (id \notin Ids(sounds) \/ status # "ok")

\* C35: the lock is held by one thread at a time, a thread inside a locked
\* section is the holder (it never has to take the lock again), and the
\* holder is never stuck: it can go on to the point where it drops the
\* guard, so that no thread waits for the lock for ever.
C35_NoThreadWaitsForEver ==
  /\ \A th \in Threads : lock[th] \in {"locked", "wrapped"} => lock.holder = th
  /\ lock.holder \in Threads => status = "ok"

\* The streams that are open: the one the event loop holds and the forgotten.
Streams == (IF backend.stream THEN 1 ELSE 0) + backend.leaked

\* C36: a stream's error callback has sent one RecreateStream once the
\* stream has reported an error, however many it reported, and none before;
\* and at most one stream is open at a time.
C36_OneRecreationPerStream ==
  /\ backend.stream => backend.sent = (IF backend.handled THEN 1 ELSE 0)
  /\ Streams <= 1

\* C36, with the android build told apart: a stream's error callback has sent
\* one RecreateStream once the stream has reported an error, however many it
\* reported, and none before; off android the old stream is dropped before
\* the new one is created, so that at most one stream is open; on android the
\* old stream is forgotten instead, and only there do forgotten streams exist.
C36_OneRecreationPerStreamOffAndroid ==
  /\ backend.stream => backend.sent = (IF backend.handled THEN 1 ELSE 0)
  /\ backend.target # "android" => Streams <= 1
  /\ backend.leaked > 0 => backend.target = "android"

\* A stream that has reported two errors and sent one RecreateStream.
C36_Witness ==
  /\ backend.stream
  /\ backend.errors = 2
  /\ backend.sent = 1
  /\ Len(SelectSeq(backend.queue, LAMBDA e : e = "RecreateStream")) = 1

\* The preference tuple (rate == 48000, rate == 44100, channels == 2,
\* channels == 1, format == i16, rate).
Preference(x) ==
  <<Bit(x.rate = 48000), Bit(x.rate = 44100), Bit(x.channels = 2),
    Bit(x.channels = 1), Bit(x.format = "I16"), x.rate>>

\* C37: the configurations create_device has tried so far were tried in
\* descending order of the preference tuple; a configuration at 44100 Hz was
\* tried before every configuration whose rate is neither 48000 nor 44100.
C37_TriedInPreferenceOrder ==
  \A i, j \in 1..Len(backend.tried) :
    i < j =>
      /\ ~TupleLess(Preference(backend.tried[i]),
                    Preference(backend.tried[j]))
      /\ ~(/\ backend.tried[j].rate = 44100
           /\ backend.tried[i].rate \notin {48000, 44100})

\* The conversion through a separate input buffer: the inner source writes
\* into a buffer of its own and the frames' means are written from there
\* into the output slice b, as in the Ordering::Greater arm.
ChannelSeparate(d, b) ==
  LET outCh == d.channels
      inCh == SrcChannels(d.inner)
      len == (Len(b) \div outCh) * inCh
      r == SrcWrite(d.inner, Zeros(len))
  IN [d |-> [d EXCEPT !.inner = r.d],
      b |-> GreaterLoop(b, r.b, 0, r.n, 0, inCh, outCh),
      n |-> (r.n * outCh) \div inCh]

\* The step has returned what w holds: the samples, their count and the
\* inner source's position.
ReturnedAs(w) ==
  /\ last'.ret = w.n
  /\ conv'.out = conv.out \o SubSeq(w.b, 1, Min(w.n, Len(w.b)))
  /\ conv'.d.inner = w.d.inner

\* C38: a write_samples call on a ChannelConverter with fewer input than
\* output channels, which converts in place from the last frame to the first,
\* returns what the conversion through a separate input buffer returns: the
\* same samples, the same count, the inner source left at the same position.
C38_InPlaceEqualsSeparate ==
  [][(/\ conv.d.kind = "channel"
      /\ SrcChannels(conv.d.inner) < conv.d.channels
      /\ last'.op = "write_samples"
      /\ ~conv'.fault)
       => ReturnedAs(ChannelSeparate(conv.d, Zeros(last'.n)))]_vars

\* Two channels were spread over three, two frames or more in one call: the
\* first frame's output takes the place of the second frame's first sample.
C38_Witness ==
  /\ conv.d.kind = "channel"
  /\ ~conv.fault
  /\ SrcChannels(conv.d.inner) = 2
  /\ conv.d.channels = 3
  /\ last.op = "write_samples"
  /\ last.ret >= 6
  /\ Len(conv.out) >= last.ret
  /\ conv.out[Len(conv.out) - last.ret + 1] # conv.out[Len(conv.out) - last.ret + 4]

====
